---- MODULE Spec2Model ----
(***************************************************************************)
(* A model of the Bases bridge: the filter and formula interpreter, the    *)
(* query planner with its snapshot cache, and the batch frontmatter        *)
(* upsert.  JavaScript strings are sequences of one-character strings, so  *)
(* that splitting, trimming, prefix tests and parsing are computed the way *)
(* the code computes them.  JavaScript values are tagged records.          *)
(***************************************************************************)
EXTENDS Integers, Sequences, FiniteSets, TLC

(* ------------------------------------------------------------------ *)
(* Characters and strings                                              *)
(* ------------------------------------------------------------------ *)

\* The characters of the model in UTF-16 code-unit order (String < and > compare by it).
Alphabet ==
  <<" ","!","\"","#","&","'","(",")","*",",","-",".","/",
    "0","1","2","3","4","5","6","7","8","9",":","<","=",">",
    "A","B","C","D","E","F","G","H","I","J","K","L","M","N","O","P","Q","R","S","T","U","V","W","X","Y","Z",
    "[","\\","]","_",
    "a","b","c","d","e","f","g","h","i","j","k","l","m","n","o","p","q","r","s","t","u","v","w","x","y","z",
    "{","|","}">>

Digits == <<"0","1","2","3","4","5","6","7","8","9">>
LowerCase == <<"a","b","c","d","e","f","g","h","i","j","k","l","m","n","o","p","q","r","s","t","u","v","w","x","y","z">>
UpperCase == <<"A","B","C","D","E","F","G","H","I","J","K","L","M","N","O","P","Q","R","S","T","U","V","W","X","Y","Z">>

Range(s) == {s[i] : i \in 1..Len(s)}
IndexIn(seq, c) == CHOOSE i \in 1..Len(seq) : seq[i] = c
CharCode(c) == IndexIn(Alphabet, c)
IsDigit(c) == c \in Range(Digits)
IsLetter(c) == c \in Range(LowerCase) \cup Range(UpperCase)
\* The class [\p{L}\p{N}_-] of the reference-token pattern.
IsRefChar(c) == IsLetter(c) \/ IsDigit(c) \/ c = "_" \/ c = "-"
IsSpace(c) == c = " "
ToLowerChar(c) == IF c \in Range(UpperCase) THEN LowerCase[IndexIn(UpperCase, c)] ELSE c
ToLower(s) == [i \in 1..Len(s) |-> ToLowerChar(s[i])]
DigitVal(c) == IndexIn(Digits, c) - 1

Reverse(s) == [i \in 1..Len(s) |-> s[Len(s) + 1 - i]]
Min(a, b) == IF a < b THEN a ELSE b
Max(a, b) == IF a > b THEN a ELSE b

\* s.slice(from) and s.slice(from, to) with 0-based JavaScript indices.
SliceFrom(s, from) == SubSeq(s, from + 1, Len(s))
Slice(s, from, to) == SubSeq(s, from + 1, to)
\* s.startsWith(p, at) with a 0-based position.
StartsWithAt(s, p, at) ==
  /\ at + Len(p) <= Len(s)
  /\ \A k \in 1..Len(p) : s[at + k] = p[k]
StartsWith(s, p) == StartsWithAt(s, p, 0)
EndsWith(s, p) == Len(p) <= Len(s) /\ StartsWithAt(s, p, Len(s) - Len(p))
\* s.includes(p)
Includes(s, p) == \E at \in 0..Len(s) : StartsWithAt(s, p, at)
\* s.indexOf(p), -1 when absent; s.lastIndexOf(p)
IndexOf(s, p) ==
  IF Includes(s, p) THEN CHOOSE at \in 0..Len(s) : StartsWithAt(s, p, at) /\ \A b \in 0..(at - 1) : ~StartsWithAt(s, p, b)
  ELSE -1
LastIndexOf(s, p) ==
  IF Includes(s, p) THEN CHOOSE at \in 0..Len(s) : StartsWithAt(s, p, at) /\ \A b \in (at + 1)..Len(s) : ~StartsWithAt(s, p, b)
  ELSE -1

\* s.trim()
RECURSIVE TrimStart(_)
TrimStart(s) == IF s # <<>> /\ IsSpace(Head(s)) THEN TrimStart(Tail(s)) ELSE s
RECURSIVE TrimEnd(_)
TrimEnd(s) == IF s # <<>> /\ IsSpace(s[Len(s)]) THEN TrimEnd(SubSeq(s, 1, Len(s) - 1)) ELSE s
Trim(s) == TrimEnd(TrimStart(s))

\* s.split(sep)[0] for a one-character separator.
BeforeFirst(s, sep) == IF IndexOf(s, sep) = -1 THEN s ELSE Slice(s, 0, IndexOf(s, sep))

\* parts.join(sep)
RECURSIVE Join(_, _)
Join(parts, sep) ==
  IF parts = <<>> THEN <<>>
  ELSE IF Len(parts) = 1 THEN parts[1]
  ELSE parts[1] \o sep \o Join(Tail(parts), sep)

\* The code-unit comparison of two strings: -1, 0 or 1.
RECURSIVE StrCmp(_, _)
StrCmp(a, b) ==
  IF a = <<>> /\ b = <<>> THEN 0
  ELSE IF a = <<>> THEN -1
  ELSE IF b = <<>> THEN 1
  ELSE IF CharCode(Head(a)) < CharCode(Head(b)) THEN -1
  ELSE IF CharCode(Head(a)) > CharCode(Head(b)) THEN 1
  ELSE StrCmp(Tail(a), Tail(b))

\* s.replace(/\\/g, "/")
BackslashToSlash(s) == [i \in 1..Len(s) |-> IF s[i] = "\\" THEN "/" ELSE s[i]]
\* s.replace(/\/+$/g, "")
RECURSIVE StripTrailingSlashes(_)
StripTrailingSlashes(s) ==
  IF s # <<>> /\ s[Len(s)] = "/" THEN StripTrailingSlashes(SubSeq(s, 1, Len(s) - 1)) ELSE s
\* s.replace(/^#/, "")
StripLeadingHash(s) == IF s # <<>> /\ Head(s) = "#" THEN Tail(s) ELSE s
\* s.replace(/\.md$/i, "")
StripMdSuffix(s) == IF EndsWith(ToLower(s), <<".","m","d">>) THEN Slice(s, 0, Len(s) - 3) ELSE s

\* decodeURIComponent rewrites only "%" escapes, and "%" is no character of
\* the model; id.replace(/\\/g, "/") is what is left.
normBaseId(id) == BackslashToSlash(id)

ensureBaseExt(path) ==
  LET normalized == normBaseId(path)
  IN IF EndsWith(normalized, <<".","b","a","s","e">>) THEN normalized ELSE normalized \o <<".","b","a","s","e">>

dirname(path) ==
  LET normalized == BackslashToSlash(path)
      idx == LastIndexOf(normalized, <<"/">>)
  IN IF idx = -1 THEN <<>> ELSE Slice(normalized, 0, idx)

stripQuotes(value) ==
  LET trimmed == Trim(value)
  IN IF \/ (StartsWith(trimmed, <<"\"">>) /\ EndsWith(trimmed, <<"\"">>))
        \/ (StartsWith(trimmed, <<"'">>) /\ EndsWith(trimmed, <<"'">>))
     THEN Slice(trimmed, 1, Len(trimmed) - 1)
     ELSE trimmed

RECURSIVE splitLoop(_, _, _, _, _, _, _)
RECURSIVE splitLoopQuoteBlind(_, _, _, _, _, _, _)

\* splitLoop that splits at the needle inside quotes too.
splitLoopQuoteBlind(input, needle, i, current, parts, inSingle, inDouble) ==
  IF i >= Len(input) THEN Append(parts, current)
  ELSE IF StartsWithAt(input, needle, i)
  THEN splitLoopQuoteBlind(input, needle, i + Len(needle), <<>>, Append(parts, current), inSingle, inDouble)
  ELSE splitLoopQuoteBlind(input, needle, i + 1, Append(current, input[i + 1]), parts, inSingle, inDouble)

\* The loop of splitOutsideQuotes from position i (0-based) on.
splitLoop(input, needle, i, current, parts, inSingle, inDouble) ==
  IF i >= Len(input) THEN Append(parts, current)
  ELSE
    LET ch == input[i + 1]
        prev == IF i > 0 THEN input[i] ELSE ""
        inS == IF ch = "'" /\ ~inDouble /\ prev # "\\" THEN ~inSingle ELSE inSingle
        inD == IF ch = "\"" /\ ~inS /\ prev # "\\" THEN ~inDouble ELSE inDouble
    IN IF ~inS /\ ~inD /\ StartsWithAt(input, needle, i)
       THEN splitLoop(input, needle, i + Len(needle), <<>>, Append(parts, current), inS, inD)
       ELSE splitLoop(input, needle, i + 1, Append(current, ch), parts, inS, inD)

\* parts.map(trim).filter(nonempty)
RECURSIVE TrimNonEmpty(_)
TrimNonEmpty(parts) ==
  IF parts = <<>> THEN <<>>
  ELSE IF Trim(Head(parts)) = <<>> THEN TrimNonEmpty(Tail(parts))
  ELSE <<Trim(Head(parts))>> \o TrimNonEmpty(Tail(parts))

splitOutsideQuotes(input, needle) ==
  TrimNonEmpty(splitLoop(input, needle, 0, <<>>, <<>>, FALSE, FALSE))

RECURSIVE StripQuotesNonEmpty(_)
StripQuotesNonEmpty(parts) ==
  IF parts = <<>> THEN <<>>
  ELSE IF stripQuotes(Trim(Head(parts))) = <<>> THEN StripQuotesNonEmpty(Tail(parts))
  ELSE <<stripQuotes(Trim(Head(parts)))>> \o StripQuotesNonEmpty(Tail(parts))

parseStringListLiteral(inner) == StripQuotesNonEmpty(splitOutsideQuotes(inner, <<",">>))

\* The two patterns of normalizeLinkish as written in the source, where every
\* backslash is doubled: /^\\[\\[(.*)\\]\\]$/ is a backslash, one character of
\* the class [\\[(.*)\\], a backslash and "]"; /\\.md$/i is a backslash, any
\* character and "md".
WikiMatch(v) ==
  /\ Len(v) = 4
  /\ v[1] = "\\"
  /\ v[2] \in {"\\", "[", "(", ".", "*", ")"}
  /\ v[3] = "\\"
  /\ v[4] = "]"
StripBackslashMd(v) ==
  IF Len(v) >= 4 /\ v[Len(v) - 3] = "\\" /\ ToLower(SubSeq(v, Len(v) - 1, Len(v))) = <<"m","d">>
  THEN Slice(v, 0, Len(v) - 4)
  ELSE v

\* v.match(...) succeeds only on those four-character strings; the pattern has
\* no group, so wiki[1] is undefined and the following v.split raises a TypeError.
normalizeLinkishThrows(value) == WikiMatch(Trim(value))

normalizeLinkish(value) ==
  LET v0 == Trim(value)
      v2 == BeforeFirst(v0, <<"|">>)
      v3 == BeforeFirst(v2, <<"#">>)
      v4 == StripBackslashMd(v3)
  IN Trim(v4)

\* The loop of splitTopLevelCommas from position i (0-based) on.
RECURSIVE commaLoop(_, _, _, _, _, _, _)
commaLoop(input, i, current, parts, depth, inSingle, inDouble) ==
  IF i >= Len(input) THEN Append(parts, current)
  ELSE
    LET ch == input[i + 1]
        prev == IF i > 0 THEN input[i] ELSE ""
    IN IF ch = "'" /\ ~inDouble /\ prev # "\\"
       THEN commaLoop(input, i + 1, Append(current, ch), parts, depth, ~inSingle, inDouble)
       ELSE IF ch = "\"" /\ ~inSingle /\ prev # "\\"
       THEN commaLoop(input, i + 1, Append(current, ch), parts, depth, inSingle, ~inDouble)
       ELSE IF ~inSingle /\ ~inDouble /\ ch = "("
       THEN commaLoop(input, i + 1, Append(current, ch), parts, depth + 1, inSingle, inDouble)
       ELSE IF ~inSingle /\ ~inDouble /\ ch = ")"
       THEN commaLoop(input, i + 1, Append(current, ch), parts, Max(0, depth - 1), inSingle, inDouble)
       ELSE IF ~inSingle /\ ~inDouble /\ ch = "," /\ depth = 0
       THEN commaLoop(input, i + 1, <<>>, Append(parts, current), depth, inSingle, inDouble)
       ELSE commaLoop(input, i + 1, Append(current, ch), parts, depth, inSingle, inDouble)

splitTopLevelCommas(input) == commaLoop(input, 0, <<>>, <<>>, 0, FALSE, FALSE)

(* ------------------------------------------------------------------ *)
(* JavaScript values                                                   *)
(* ------------------------------------------------------------------ *)

\* A value is a record: t is its type tag, n a number in tenths (a boolean as
\* 1 or 0, for an object its number of keys), s a string, a the elements of
\* an array (values that are not arrays).  Thrown marks a call that raised instead of returning.
V(t, n, s, a) == [t |-> t, n |-> n, s |-> s, a |-> a]
Undef == V("undef", 0, <<>>, <<>>)
Null == V("null", 0, <<>>, <<>>)
Bool(b) == V("bool", IF b THEN 1 ELSE 0, <<>>, <<>>)
Tenths(n) == V("num", n, <<>>, <<>>)
Num(i) == Tenths(10 * i)
Str(s) == V("str", 0, s, <<>>)
Arr(a) == V("arr", 0, <<>>, a)
Obj(nkeys) == V("obj", nkeys, <<>>, <<>>)
Thrown == V("throw", 0, <<>>, <<>>)

\* A number or NaN.
NaN == [fin |-> FALSE, n |-> 0]
Fin(n) == [fin |-> TRUE, n |-> n]

RECURSIVE NatToStr(_)
NatToStr(n) == IF n < 10 THEN <<Digits[n + 1]>> ELSE NatToStr(n \div 10) \o <<Digits[(n % 10) + 1]>>

\* String(x) of a number held in tenths.
NumToStr(n) ==
  LET m == IF n < 0 THEN -n ELSE n
      whole == NatToStr(m \div 10)
      frac == IF m % 10 = 0 THEN <<>> ELSE <<".", Digits[(m % 10) + 1]>>
  IN (IF n < 0 THEN <<"-">> ELSE <<>>) \o whole \o frac

RECURSIVE DigitsToNat(_, _)
DigitsToNat(s, acc) == IF s = <<>> THEN acc ELSE DigitsToNat(Tail(s), 10 * acc + DigitVal(Head(s)))
AllDigits(s) == \A i \in 1..Len(s) : IsDigit(s[i])

\* The literal pattern /^-?\d+(?:\.\d+)?$/ of the interpreter.
IsNumericLiteral(s) ==
  LET body == IF s # <<>> /\ Head(s) = "-" THEN Tail(s) ELSE s
      dot == IndexOf(body, <<".">>)
  IN IF dot = -1 THEN body # <<>> /\ AllDigits(body)
     ELSE /\ dot >= 1 /\ AllDigits(Slice(body, 0, dot))
          /\ Len(body) > dot + 1 /\ AllDigits(SliceFrom(body, dot + 1))

\* The decimal digits after the point, in tenths (the model keeps one decimal).
FracTenths(f) == IF f = <<>> THEN 0 ELSE DigitVal(Head(f))

\* Number(s) of a string: trimmed; "" is 0; an optional sign, digits and an
\* optional fraction; anything else is NaN.
decimalToNum(neg, whole, frac) ==
  IF AllDigits(whole) /\ AllDigits(frac) /\ (whole # <<>> \/ frac # <<>>)
  THEN Fin((IF neg THEN -1 ELSE 1) * (10 * DigitsToNat(whole, 0) + FracTenths(frac)))
  ELSE NaN
unsignedToNum(neg, body, dot) ==
  decimalToNum(neg, IF dot = -1 THEN body ELSE Slice(body, 0, dot),
               IF dot = -1 THEN <<>> ELSE SliceFrom(body, dot + 1))
trimmedToNum(t) ==
  IF t = <<>> THEN Fin(0)
  ELSE IF Head(t) \in {"-", "+"} THEN unsignedToNum(Head(t) = "-", Tail(t), IndexOf(Tail(t), <<".">>))
  ELSE unsignedToNum(FALSE, t, IndexOf(t, <<".">>))
StrToNum(s) == trimmedToNum(Trim(s))

\* String(v) of a value that is not an array.
ScalarToStr(v) ==
  CASE v.t = "undef" -> <<"u","n","d","e","f","i","n","e","d">>
    [] v.t = "null" -> <<"n","u","l","l">>
    [] v.t = "bool" -> IF v.n = 1 THEN <<"t","r","u","e">> ELSE <<"f","a","l","s","e">>
    [] v.t = "num" -> NumToStr(v.n)
    [] v.t = "str" -> v.s
    [] OTHER -> <<"[","o","b","j","e","c","t"," ","O","b","j","e","c","t","]">>

\* Array.prototype.join's element text: null and undefined give "".
ElemToStr(v) == IF v.t \in {"undef", "null"} THEN <<>> ELSE ScalarToStr(v)

\* String(v)
ToStr(v) ==
  IF v.t = "arr" THEN Join([i \in 1..Len(v.a) |-> ElemToStr(v.a[i])], <<",">>)
  ELSE ScalarToStr(v)

\* typeof v === "number" ? v : Number(v)
ToNumber(v) ==
  CASE v.t = "undef" -> NaN
    [] v.t = "null" -> Fin(0)
    [] v.t = "bool" -> Fin(10 * v.n)
    [] v.t = "num" -> Fin(v.n)
    [] v.t \in {"str", "arr"} -> StrToNum(ToStr(v))
    [] OTHER -> NaN

\* Array.isArray(v) ? v : v === undefined || v === null ? [] : [v]
AsArray(v) ==
  CASE v.t = "arr" -> v.a
    [] v.t \in {"undef", "null"} -> <<>>
    [] OTHER -> <<v>>

\* The shared truthiness test of the bare-identifier filter and of if().
Truthy(v) ==
  \/ (v.t = "bool" /\ v.n = 1)
  \/ (v.t = "str" /\ Len(Trim(v.s)) > 0)
  \/ v.t = "num"
  \/ (v.t = "arr" /\ Len(v.a) > 0)
  \/ (v.t = "obj" /\ v.n > 0)

(* ------------------------------------------------------------------ *)
(* Notes, base schemas, the Value Resolver and the Formula Evaluator   *)
(* ------------------------------------------------------------------ *)

\* A file of the vault with what the metadata cache holds for it:
\*   path, size, ctime, mtime; fm: the frontmatter, a function from its keys;
\*   tags: the cache's tags (with their "#"); links: the cache's raw links.
\* A schema: properties <<[key, kind]>>, formulas <<[key, expr]>> in key
\* order, views <<[name, limit, order, hasOrder, filters]>>, filters.

FmGet(fm, key) == IF key \in DOMAIN fm THEN fm[key] ELSE Undef

FileName(path) ==
  LET idx == LastIndexOf(path, <<"/">>) IN IF idx = -1 THEN path ELSE SliceFrom(path, idx + 1)
FileExtension(path) ==
  LET name == FileName(path)
      idx == LastIndexOf(name, <<".">>)
  IN IF idx = -1 THEN <<>> ELSE SliceFrom(name, idx + 1)
FileBasename(path) ==
  LET name == FileName(path)
      idx == LastIndexOf(name, <<".">>)
  IN IF idx = -1 THEN name ELSE Slice(name, 0, idx)

FormulaDefined(schema, key) == \E i \in 1..Len(schema.formulas) : schema.formulas[i].key = key
FormulaExpr(schema, key) ==
  schema.formulas[CHOOSE i \in 1..Len(schema.formulas) : schema.formulas[i].key = key].expr

\* /^join\s*\(\s*list\s*\(\s*([^\)]+)\s*\)\s*\)\s*$/s and /^list\s*\(\s*([^\)]+)\s*\)\s*$/s:
\* the text after "list", blanks skipped, is "(" then one character or more up
\* to the first ")", and only blanks (and the closing ")" of join) follow.
ListCallMatch(rest, closers) ==
  LET r == TrimStart(rest)
      body == IF r # <<>> THEN Tail(r) ELSE <<>>
      close == IndexOf(body, <<")">>)
      after == IF close = -1 THEN <<>> ELSE SliceFrom(body, close + 1)
  IN /\ r # <<>> /\ Head(r) = "("
     /\ close >= 1
     /\ (IF closers = 0 THEN Trim(after) = <<>> ELSE Trim(after) = <<")">>)
ListCallRef(rest) ==
  LET body == Tail(TrimStart(rest)) IN Trim(Slice(body, 0, IndexOf(body, <<")">>)))
listMatch(raw) == StartsWith(raw, <<"l","i","s","t">>) /\ ListCallMatch(SliceFrom(raw, 4), 0)
listRef(raw) == ListCallRef(SliceFrom(raw, 4))
joinListInner(raw) ==
  LET r == TrimStart(SliceFrom(raw, 4)) IN IF r # <<>> /\ Head(r) = "(" THEN TrimStart(Tail(r)) ELSE <<>>
joinListMatch(raw) ==
  /\ StartsWith(raw, <<"j","o","i","n">>)
  /\ StartsWith(joinListInner(raw), <<"l","i","s","t">>)
  /\ ListCallMatch(SliceFrom(joinListInner(raw), 4), 1)
joinListRef(raw) == ListCallRef(SliceFrom(joinListInner(raw), 4))

\* /^if\((.*)\)$/s
ifMatch(raw) == StartsWith(raw, <<"i","f","(">>) /\ EndsWith(raw, <<")">>) /\ Len(raw) >= 4
ifArgs(raw) ==
  LET parts == splitTopLevelCommas(Slice(raw, 3, Len(raw) - 1))
  IN [i \in 1..Len(parts) |-> Trim(parts[i])]

\* /^[\p{L}\p{N}_-]+$/u
IsRefToken(raw) == raw # <<>> /\ \A i \in 1..Len(raw) : IsRefChar(raw[i])

\* The call depth at which the engine's stack is exhausted (RangeError).
StackLimit == 6

RECURSIVE getValueForRef(_, _, _, _)
RECURSIVE evalFormula(_, _, _, _)
RECURSIVE evalFormulaExpression(_, _, _, _)
RECURSIVE resolveTrimmed(_, _, _, _)
RECURSIVE ifValue(_, _, _, _, _)
RECURSIVE evalTrimmed(_, _, _, _)

\* The file.<field> references.
fileField(file, key) ==
  CASE key = <<"p","a","t","h">> -> Str(file.path)
    [] key = <<"n","a","m","e">> -> Str(FileBasename(file.path))
    [] key = <<"e","x","t">> -> Str(FileExtension(file.path))
    [] key = <<"s","i","z","e">> -> Num(file.size)
    [] key = <<"c","t","i","m","e">> -> Num(file.ctime)
    [] key = <<"m","t","i","m","e">> -> Num(file.mtime)
    [] key = <<"f","o","l","d","e","r">> -> Str(dirname(file.path))
    [] OTHER -> Undef

\* getValueForRef after const trimmed = ref.trim().
resolveTrimmed(file, trimmed, schema, depth) ==
  IF StartsWith(trimmed, <<"f","i","l","e",".">>) THEN fileField(file, SliceFrom(trimmed, 5))
  ELSE IF StartsWith(trimmed, <<"n","o","t","e",".">>) THEN FmGet(file.fm, SliceFrom(trimmed, 5))
  ELSE IF StartsWith(trimmed, <<"f","o","r","m","u","l","a",".">>) THEN evalFormula(file, SliceFrom(trimmed, 8), schema, depth)
  ELSE FmGet(file.fm, trimmed)

getValueForRef(file, ref, schema, depth) == resolveTrimmed(file, Trim(ref), schema, depth)

evalFormula(file, formulaKey, schema, depth) ==
  IF ~FormulaDefined(schema, formulaKey) THEN Undef
  ELSE IF depth >= StackLimit THEN Thrown
  ELSE evalFormulaExpression(file, FormulaExpr(schema, formulaKey), schema, depth + 1)

\* join(list(x)): asArray(x).map(String).join(", ")
joinValue(v) ==
  IF v = Thrown THEN Thrown
  ELSE Str(Join([i \in 1..Len(AsArray(v)) |-> ToStr(AsArray(v)[i])], <<",", " ">>))

\* list(x): asArray(x)
listValue(v) == IF v = Thrown THEN Thrown ELSE Arr(AsArray(v))

\* if(cond, then, else...) once the condition is resolved: the then branch
\* is resolved as a reference, the else branch evaluated as an expression.
ifValue(file, args, condVal, schema, depth) ==
  IF condVal = Thrown THEN Thrown
  ELSE IF Truthy(condVal) THEN getValueForRef(file, args[2], schema, depth)
  ELSE IF depth >= StackLimit THEN Thrown
  ELSE evalFormulaExpression(file, Trim(Join(SubSeq(args, 3, Len(args)), <<",">>)), schema, depth + 1)

\* evalFormulaExpression after const raw = expr.trim().
evalTrimmed(file, raw, schema, depth) ==
  IF raw = <<>> THEN Undef
  ELSE IF raw = <<"n","u","l","l">> THEN Null
  ELSE IF IsNumericLiteral(raw) THEN Tenths(StrToNum(raw).n)
  ELSE IF (StartsWith(raw, <<"\"">>) /\ EndsWith(raw, <<"\"">>)) \/ (StartsWith(raw, <<"'">>) /\ EndsWith(raw, <<"'">>))
  THEN Str(stripQuotes(raw))
  ELSE IF \/ StartsWith(raw, <<"f","i","l","e",".">>) \/ StartsWith(raw, <<"n","o","t","e",".">>) \/ StartsWith(raw, <<"f","o","r","m","u","l","a",".">>)
          \/ IsRefToken(raw)
  THEN getValueForRef(file, raw, schema, depth)
  ELSE IF joinListMatch(raw) THEN joinValue(getValueForRef(file, joinListRef(raw), schema, depth))
  ELSE IF listMatch(raw) THEN listValue(getValueForRef(file, listRef(raw), schema, depth))
  ELSE IF ifMatch(raw) /\ Len(ifArgs(raw)) >= 3
  THEN ifValue(file, ifArgs(raw), getValueForRef(file, ifArgs(raw)[1], schema, depth), schema, depth)
  ELSE Undef

evalFormulaExpression(file, expr, schema, depth) == evalTrimmed(file, Trim(expr), schema, depth)

\* props[p.key] for every property of the schema, in schema order.
buildRowProps(file, schema) ==
  [i \in 1..Len(schema.properties) |->
     [key |-> schema.properties[i].key,
      value |-> IF schema.properties[i].kind = "formula"
                THEN getValueForRef(file, <<"f","o","r","m","u","l","a",".">> \o schema.properties[i].key, schema, 0)
                ELSE getValueForRef(file, schema.properties[i].key, schema, 0)]]

\* computed[key] for every formula of the schema, in key order.
buildComputed(file, schema) ==
  [i \in 1..Len(schema.formulas) |->
     [key |-> schema.formulas[i].key,
      value |-> evalFormula(file, schema.formulas[i].key, schema, 0)]]

(* ------------------------------------------------------------------ *)
(* The Filter Evaluator                                                *)
(* ------------------------------------------------------------------ *)

\* The result of an evaluation; threw marks a call that raised.
R(ok, warnings, threw) == [ok |-> ok, warnings |-> warnings, threw |-> threw]
Raised == R(FALSE, <<>>, TRUE)

\* fmTags.split(/[, ]+/).map(trim).filter(Boolean)
RECURSIVE splitCommaSpace(_, _, _)
splitCommaSpace(s, current, parts) ==
  IF s = <<>> THEN (IF current = <<>> THEN parts ELSE Append(parts, current))
  ELSE IF Head(s) \in {",", " "}
  THEN splitCommaSpace(Tail(s), <<>>, IF current = <<>> THEN parts ELSE Append(parts, current))
  ELSE splitCommaSpace(Tail(s), Append(current, Head(s)), parts)

\* The tags of the frontmatter value fmTags: a string is split, an array
\* contributes its non-blank strings.
frontmatterTags(fmTags) ==
  IF fmTags.t = "str"
  THEN {StripLeadingHash(splitCommaSpace(fmTags.s, <<>>, <<>>)[i]) : i \in 1..Len(splitCommaSpace(fmTags.s, <<>>, <<>>))}
  ELSE IF fmTags.t = "arr"
  THEN {StripLeadingHash(fmTags.a[i].s) :
          i \in {j \in 1..Len(fmTags.a) : fmTags.a[j].t = "str" /\ Trim(fmTags.a[j].s) # <<>>}}
  ELSE {}

getTagSet(file) ==
  {StripLeadingHash(file.tags[i]) : i \in {j \in 1..Len(file.tags) : StripLeadingHash(file.tags[j]) # <<>>}}
  \cup frontmatterTags(FmGet(file.fm, <<"t","a","g","s">>))

fileHasLink(file, target) ==
  LET want == Trim(target)
      normalizedWant == StripMdSuffix(want)
  IN /\ want # <<>>
     /\ \E i \in 1..Len(file.links) :
          /\ file.links[i] # <<>>
          /\ (StripMdSuffix(file.links[i]) = normalizedWant \/ file.links[i] = want)

\* /^<prefix>(.+)\)$/ for a prefix that ends with "(": the argument text.
CallMatch(raw, prefix) == StartsWith(raw, prefix) /\ EndsWith(raw, <<")">>) /\ Len(raw) >= Len(prefix) + 2
CallArg(raw, prefix) == Slice(raw, Len(prefix), Len(raw) - 1)

\* /^\[(.*)\]\.contains\((.*)\)$/s: the first group is greedy, so the last
\* "].contains(" that leaves room for the closing ")" separates the groups.
ListContainsSeps(raw) ==
  {q \in 1..Len(raw) : StartsWithAt(raw, <<"]",".","c","o","n","t","a","i","n","s","(">>, q) /\ q + 11 <= Len(raw) - 1}
listContainsMatch(raw) ==
  StartsWith(raw, <<"[">>) /\ EndsWith(raw, <<")">>) /\ ListContainsSeps(raw) # {}
ListContainsSep(raw) == CHOOSE q \in ListContainsSeps(raw) : \A p \in ListContainsSeps(raw) : p <= q
listContainsItems(raw) == parseStringListLiteral(Slice(raw, 1, ListContainsSep(raw)))
listContainsNeedleRef(raw) == Trim(Slice(raw, ListContainsSep(raw) + 11, Len(raw) - 1))

\* The longest run of reference characters of raw from position at (0-based).
RECURSIVE RefRunEnd(_, _)
RefRunEnd(raw, at) == IF at < Len(raw) /\ IsRefChar(raw[at + 1]) THEN RefRunEnd(raw, at + 1) ELSE at

\* /^list\(([\p{L}\p{N}_-]+)\)\.contains\(link\((.+)\)\)$/u  (lead = "list(", sep = ").contains(link(")
\* /^([\p{L}\p{N}_-]+)\.contains\(link\((.+)\)\)$/u          (lead = "", sep = ".contains(link(")
ContainsLinkMatch(raw, lead, sep) ==
  LET e == RefRunEnd(raw, Len(lead))
  IN /\ StartsWith(raw, lead)
     /\ e > Len(lead)
     /\ StartsWithAt(raw, sep, e)
     /\ EndsWith(raw, <<")",")">>)
     /\ Len(raw) - 2 >= e + Len(sep) + 1
ContainsLinkKey(raw, lead) == Slice(raw, Len(lead), RefRunEnd(raw, Len(lead)))
ContainsLinkTarget(raw, lead, sep) == Slice(raw, RefRunEnd(raw, Len(lead)) + Len(sep), Len(raw) - 2)

\* arr.some((x) => normalizeLinkish(String(x)) === want): some() stops at the
\* first element that matches, and normalizeLinkish raises on the strings its
\* first pattern matches.
someLinkIs(arr, want) ==
  IF \E t \in 1..Len(arr) :
       /\ normalizeLinkishThrows(ToStr(arr[t]))
       /\ \A h \in 1..(t - 1) :
            normalizeLinkishThrows(ToStr(arr[h])) \/ normalizeLinkish(ToStr(arr[h])) # want
  THEN Raised
  ELSE R(\E i \in 1..Len(arr) : ~normalizeLinkishThrows(ToStr(arr[i])) /\ normalizeLinkish(ToStr(arr[i])) = want,
         <<>>, FALSE)

\* The two contains(link(...)) rules once the property is resolved.
containsLinkIn(v, targetRaw) ==
  IF normalizeLinkishThrows(targetRaw) \/ v = Thrown THEN Raised
  ELSE someLinkIs(AsArray(v), normalizeLinkish(targetRaw))

containsLink(file, key, targetRaw, schema) == containsLinkIn(getValueForRef(file, key, schema, 0), targetRaw)

\* The operator of /^(.*?)\s*(==|=|!=|>=|<=|>|<)\s*(.*?)\s*$/ at position at (0-based), "" if none.
OpAt(raw, at) ==
  IF StartsWithAt(raw, <<"=","=">>, at) THEN "=="
  ELSE IF StartsWithAt(raw, <<"=">>, at) THEN "="
  ELSE IF StartsWithAt(raw, <<"!","=">>, at) THEN "!="
  ELSE IF StartsWithAt(raw, <<">","=">>, at) THEN ">="
  ELSE IF StartsWithAt(raw, <<"<","=">>, at) THEN "<="
  ELSE IF StartsWithAt(raw, <<">">>, at) THEN ">"
  ELSE IF StartsWithAt(raw, <<"<">>, at) THEN "<"
  ELSE ""
OpLen(op) == IF op \in {"==", "!=", ">=", "<="} THEN 2 ELSE 1
\* The left-hand text is lazy: the match is at the first operator of the text.
opMatch(raw) == \E at \in 0..(Len(raw) - 1) : OpAt(raw, at) # ""
OpPos(raw) == CHOOSE at \in 0..(Len(raw) - 1) : OpAt(raw, at) # "" /\ \A b \in 0..(at - 1) : OpAt(raw, b) = ""

\* The right-hand side of a comparison as a value.
rightValue(rightRaw) ==
  IF ToLower(rightRaw) \in {<<"t","r","u","e">>, <<"f","a","l","s","e">>} THEN Bool(ToLower(rightRaw) = <<"t","r","u","e">>)
  ELSE IF IsNumericLiteral(rightRaw) THEN Tenths(StrToNum(rightRaw).n)
  ELSE Str(stripQuotes(rightRaw))

\* compareWith with "<=" answered as "<".
compareStrictLe(op, leftNum, rightNum, cmp) ==
  CASE op \in {"==", "="} -> IF leftNum.fin /\ rightNum.fin THEN leftNum.n = rightNum.n ELSE cmp = 0
    [] op = "!=" -> IF leftNum.fin /\ rightNum.fin THEN leftNum.n # rightNum.n ELSE cmp # 0
    [] op = ">" -> IF leftNum.fin /\ rightNum.fin THEN leftNum.n > rightNum.n ELSE cmp = 1
    [] op = "<" -> IF leftNum.fin /\ rightNum.fin THEN leftNum.n < rightNum.n ELSE cmp = -1
    [] op = ">=" -> IF leftNum.fin /\ rightNum.fin THEN leftNum.n >= rightNum.n ELSE cmp >= 0
    [] op = "<=" -> IF leftNum.fin /\ rightNum.fin THEN leftNum.n < rightNum.n ELSE cmp < 0

\* The switch over the operator: numeric when both sides are finite numbers,
\* else on the order cmp of String(left) and String(right).
compareWith(op, leftNum, rightNum, cmp) ==
  CASE op \in {"==", "="} -> IF leftNum.fin /\ rightNum.fin THEN leftNum.n = rightNum.n ELSE cmp = 0
    [] op = "!=" -> IF leftNum.fin /\ rightNum.fin THEN leftNum.n # rightNum.n ELSE cmp # 0
    [] op = ">" -> IF leftNum.fin /\ rightNum.fin THEN leftNum.n > rightNum.n ELSE cmp = 1
    [] op = "<" -> IF leftNum.fin /\ rightNum.fin THEN leftNum.n < rightNum.n ELSE cmp = -1
    [] op = ">=" -> IF leftNum.fin /\ rightNum.fin THEN leftNum.n >= rightNum.n ELSE cmp >= 0
    [] op = "<=" -> IF leftNum.fin /\ rightNum.fin THEN leftNum.n <= rightNum.n ELSE cmp <= 0

\* leftNum, rightNum and the string order of the two sides.
compare(op, left, right) == compareWith(op, ToNumber(left), ToNumber(right), StrCmp(ToStr(left), ToStr(right)))

\* The comparison once its left-hand reference is resolved.
compareResolved(op, left, rightRaw) ==
  IF left = Thrown THEN Raised ELSE R(compare(op, left, rightValue(rightRaw)), <<>>, FALSE)

\* The comparison whose first operator is at position at (0-based).
comparisonAt(file, raw, at, schema) ==
  compareResolved(OpAt(raw, at), getValueForRef(file, Trim(Slice(raw, 0, at)), schema, 0),
                  Trim(SliceFrom(raw, at + OpLen(OpAt(raw, at)))))

comparison(file, raw, schema) == comparisonAt(file, raw, OpPos(raw), schema)

WarnUnrecognized(raw) == <<"F","i","l","t","e","r"," ","n","o","n"," ","r","e","c","o","n","n","u",":"," ">> \o raw
WarnUnknownShape == <<"F","i","l","t","e","r"," ","n","o","n"," ","s","u","p","p","o","r","t","é"," ","(","s","h","a","p","e"," ","i","n","c","o","n","n","u",")",".">>

RECURSIVE evaluateStatement(_, _, _)
RECURSIVE statementTrimmed(_, _, _)
RECURSIVE orLoop(_, _, _)
RECURSIVE andLoop(_, _, _)
RECURSIVE andLoopNoShortCircuit(_, _, _)

\* for (const part of orParts): every part is evaluated.
orLoop(file, parts, schema) ==
  IF parts = <<>> THEN R(FALSE, <<>>, FALSE)
  ELSE LET res == evaluateStatement(file, Head(parts), schema)
           rest == orLoop(file, Tail(parts), schema)
       IN IF res.threw THEN Raised
          ELSE IF rest.threw THEN Raised
          ELSE R(res.ok \/ rest.ok, res.warnings \o rest.warnings, FALSE)

\* andLoop that goes on after a part has failed.
andLoopNoShortCircuit(file, parts, schema) ==
  IF parts = <<>> THEN R(TRUE, <<>>, FALSE)
  ELSE LET res == evaluateStatement(file, Head(parts), schema)
           rest == andLoopNoShortCircuit(file, Tail(parts), schema)
       IN IF res.threw \/ rest.threw THEN Raised
          ELSE R(res.ok /\ rest.ok, res.warnings \o rest.warnings, FALSE)

\* for (const part of andParts): returns at the first part that fails.
andLoop(file, parts, schema) ==
  IF parts = <<>> THEN R(TRUE, <<>>, FALSE)
  ELSE LET res == evaluateStatement(file, Head(parts), schema)
           rest == andLoop(file, Tail(parts), schema)
       IN IF res.threw THEN Raised
          ELSE IF ~res.ok THEN R(FALSE, res.warnings, FALSE)
          ELSE IF rest.threw THEN Raised
          ELSE R(rest.ok, res.warnings \o rest.warnings, FALSE)

\* { ok: !res.ok, warnings }
negate(res) == IF res.threw THEN Raised ELSE R(~res.ok, res.warnings, FALSE)

\* file.inFolder(x): every file is in the empty folder.
inFolder(path, folder) ==
  R(IF folder # <<>> THEN StartsWith(path, folder \o <<"/">>) ELSE TRUE, <<>>, FALSE)

\* [..].contains(ref) once ref is resolved: an undefined value stands for
\* the text of the reference, null for the empty string.
listContainsNeedle(items, needleRef, needle) ==
  IF needle = Thrown THEN Raised
  ELSE IF needle.t = "undef" THEN R(\E i \in 1..Len(items) : items[i] = stripQuotes(needleRef), <<>>, FALSE)
  ELSE IF needle.t = "null" THEN R(\E i \in 1..Len(items) : items[i] = <<>>, <<>>, FALSE)
  ELSE R(\E i \in 1..Len(items) : items[i] = ToStr(needle), <<>>, FALSE)

listContains(file, raw, schema) ==
  listContainsNeedle(listContainsItems(raw), listContainsNeedleRef(raw),
                     getValueForRef(file, listContainsNeedleRef(raw), schema, 0))

\* The field of /^file\.(path|name|folder|ext)\.(contains|startsWith)\((.+)\)$/
FileFields == {<<"p","a","t","h">>, <<"n","a","m","e">>, <<"f","o","l","d","e","r">>, <<"e","x","t">>}
fileFieldOpMatch(raw) ==
  \E f \in FileFields : \E o \in {<<".","c","o","n","t","a","i","n","s","(">>, <<".","s","t","a","r","t","s","W","i","t","h","(">>} : CallMatch(raw, <<"f","i","l","e",".">> \o f \o o)
fileFieldOpField(raw) ==
  CHOOSE f \in FileFields : \E o \in {<<".","c","o","n","t","a","i","n","s","(">>, <<".","s","t","a","r","t","s","W","i","t","h","(">>} : CallMatch(raw, <<"f","i","l","e",".">> \o f \o o)

\* hay.includes(needle) or hay.startsWith(needle) for the field's value hay.
fileFieldTest(raw, prefix, hay) ==
  IF CallMatch(raw, prefix \o <<".","c","o","n","t","a","i","n","s","(">>)
  THEN R(Includes(ToStr(hay), stripQuotes(CallArg(raw, prefix \o <<".","c","o","n","t","a","i","n","s","(">>))), <<>>, FALSE)
  ELSE R(StartsWith(ToStr(hay), stripQuotes(CallArg(raw, prefix \o <<".","s","t","a","r","t","s","W","i","t","h","(">>))), <<>>, FALSE)

fileFieldOp(file, raw, field, schema) ==
  fileFieldTest(raw, <<"f","i","l","e",".">> \o field, getValueForRef(file, <<"f","i","l","e",".">> \o field, schema, 0))

\* The bare identifier: the truthiness of the value it names.
bareIdentifier(v) == IF v = Thrown THEN Raised ELSE R(Truthy(v), <<>>, FALSE)

\* The built-in predicates, the comparison, the bare identifier and the
\* unrecognised statement: evaluateStatement after its logical forms.
evaluateAtom(file, raw, schema) ==
  IF CallMatch(raw, <<"f","i","l","e",".","h","a","s","T","a","g","(">>)
  THEN R(StripLeadingHash(stripQuotes(CallArg(raw, <<"f","i","l","e",".","h","a","s","T","a","g","(">>))) \in getTagSet(file), <<>>, FALSE)
  ELSE IF CallMatch(raw, <<"f","i","l","e",".","i","n","F","o","l","d","e","r","(">>)
  THEN inFolder(file.path, StripTrailingSlashes(BackslashToSlash(stripQuotes(CallArg(raw, <<"f","i","l","e",".","i","n","F","o","l","d","e","r","(">>)))))
  ELSE IF CallMatch(raw, <<"f","i","l","e",".","h","a","s","L","i","n","k","(">>)
  THEN R(fileHasLink(file, stripQuotes(CallArg(raw, <<"f","i","l","e",".","h","a","s","L","i","n","k","(">>))), <<>>, FALSE)
  ELSE IF listContainsMatch(raw) THEN listContains(file, raw, schema)
  ELSE IF CallMatch(raw, <<"f","i","l","e",".","p","a","t","h",".","s","t","a","r","t","s","W","i","t","h","(">>)
  THEN R(StartsWith(file.path, BackslashToSlash(stripQuotes(CallArg(raw, <<"f","i","l","e",".","p","a","t","h",".","s","t","a","r","t","s","W","i","t","h","(">>)))), <<>>, FALSE)
  ELSE IF CallMatch(raw, <<"f","i","l","e",".","p","a","t","h",".","c","o","n","t","a","i","n","s","(">>)
  THEN R(Includes(file.path, BackslashToSlash(stripQuotes(CallArg(raw, <<"f","i","l","e",".","p","a","t","h",".","c","o","n","t","a","i","n","s","(">>)))), <<>>, FALSE)
  ELSE IF CallMatch(raw, <<"f","i","l","e",".","f","o","l","d","e","r",".","s","t","a","r","t","s","W","i","t","h","(">>)
  THEN R(StartsWith(dirname(file.path),
                    StripTrailingSlashes(BackslashToSlash(stripQuotes(CallArg(raw, <<"f","i","l","e",".","f","o","l","d","e","r",".","s","t","a","r","t","s","W","i","t","h","(">>))))),
         <<>>, FALSE)
  ELSE IF CallMatch(raw, <<"f","i","l","e",".","f","o","l","d","e","r",".","c","o","n","t","a","i","n","s","(">>)
  THEN R(Includes(dirname(file.path), BackslashToSlash(stripQuotes(CallArg(raw, <<"f","i","l","e",".","f","o","l","d","e","r",".","c","o","n","t","a","i","n","s","(">>)))), <<>>, FALSE)
  ELSE IF CallMatch(raw, <<"f","i","l","e",".","t","a","g","s",".","c","o","n","t","a","i","n","s","(">>)
  THEN R(StripLeadingHash(stripQuotes(CallArg(raw, <<"f","i","l","e",".","t","a","g","s",".","c","o","n","t","a","i","n","s","(">>))) \in getTagSet(file), <<>>, FALSE)
  ELSE IF ContainsLinkMatch(raw, <<"l","i","s","t","(">>, <<")",".","c","o","n","t","a","i","n","s","(","l","i","n","k","(">>)
  THEN containsLink(file, ContainsLinkKey(raw, <<"l","i","s","t","(">>),
                    stripQuotes(ContainsLinkTarget(raw, <<"l","i","s","t","(">>, <<")",".","c","o","n","t","a","i","n","s","(","l","i","n","k","(">>)), schema)
  ELSE IF ContainsLinkMatch(raw, <<>>, <<".","c","o","n","t","a","i","n","s","(","l","i","n","k","(">>)
  THEN containsLink(file, ContainsLinkKey(raw, <<>>),
                    stripQuotes(ContainsLinkTarget(raw, <<>>, <<".","c","o","n","t","a","i","n","s","(","l","i","n","k","(">>)), schema)
  ELSE IF fileFieldOpMatch(raw) THEN fileFieldOp(file, raw, fileFieldOpField(raw), schema)
  ELSE IF opMatch(raw) THEN comparison(file, raw, schema)
  ELSE IF IsRefToken(raw) THEN bareIdentifier(getValueForRef(file, raw, schema, 0))
  ELSE R(TRUE, <<WarnUnrecognized(raw)>>, FALSE)

\* evaluateStatement after const raw = String(statement ?? "").trim().
statementTrimmed(file, raw, schema) ==
  IF raw = <<>> THEN R(TRUE, <<>>, FALSE)
  ELSE IF Len(splitOutsideQuotes(raw, <<" ","o","r"," ">>)) > 1 THEN orLoop(file, splitOutsideQuotes(raw, <<" ","o","r"," ">>), schema)
  ELSE IF Len(splitOutsideQuotes(raw, <<"|","|">>)) > 1 THEN orLoop(file, splitOutsideQuotes(raw, <<"|","|">>), schema)
  ELSE IF Len(splitOutsideQuotes(raw, <<" ","a","n","d"," ">>)) > 1 THEN andLoop(file, splitOutsideQuotes(raw, <<" ","a","n","d"," ">>), schema)
  ELSE IF Len(splitOutsideQuotes(raw, <<"&","&">>)) > 1 THEN andLoop(file, splitOutsideQuotes(raw, <<"&","&">>), schema)
  ELSE IF StartsWith(raw, <<"n","o","t"," ">>) THEN negate(evaluateStatement(file, SliceFrom(raw, 4), schema))
  ELSE IF StartsWith(raw, <<"!">>) THEN negate(evaluateStatement(file, SliceFrom(raw, 1), schema))
  ELSE evaluateAtom(file, raw, schema)

evaluateStatement(file, statement, schema) == statementTrimmed(file, Trim(statement), schema)

\* A filter node: k is "null" (absent), "str" (a statement s), "and" or "or"
\* (children c), "not" (the child c[1]) or "other" (any other shape).
FNull == [k |-> "null", s |-> <<>>, c |-> <<>>]
FStr(s) == [k |-> "str", s |-> s, c |-> <<>>]
FAnd(c) == [k |-> "and", s |-> <<>>, c |-> c]
FOr(c) == [k |-> "or", s |-> <<>>, c |-> c]
FNot(x) == [k |-> "not", s |-> <<>>, c |-> <<x>>]
FOther == [k |-> "other", s |-> <<>>, c |-> <<>>]

\* !filter
Falsy(filter) == filter.k = "null" \/ (filter.k = "str" /\ filter.s = <<>>)

RECURSIVE evaluateFilter(_, _, _)
RECURSIVE andFilterLoop(_, _, _)
RECURSIVE andFilterLoopEmptyFails(_, _, _)
RECURSIVE orFilterLoopShortCircuit(_, _, _)

\* andFilterLoop where { and: [] } fails.
andFilterLoopEmptyFails(file, parts, schema) ==
  IF parts = <<>> THEN R(FALSE, <<>>, FALSE)
  ELSE LET res == evaluateFilter(file, Head(parts), schema)
           rest == IF Tail(parts) = <<>> THEN R(TRUE, <<>>, FALSE) ELSE andFilterLoopEmptyFails(file, Tail(parts), schema)
       IN IF res.threw THEN Raised
          ELSE IF ~res.ok THEN R(FALSE, res.warnings, FALSE)
          ELSE IF rest.threw THEN Raised
          ELSE R(rest.ok, res.warnings \o rest.warnings, FALSE)

\* for (const part of filter.and): returns at the first part that fails.
andFilterLoop(file, parts, schema) ==
  IF parts = <<>> THEN R(TRUE, <<>>, FALSE)
  ELSE LET res == evaluateFilter(file, Head(parts), schema)
           rest == andFilterLoop(file, Tail(parts), schema)
       IN IF res.threw THEN Raised
          ELSE IF ~res.ok THEN R(FALSE, res.warnings, FALSE)
          ELSE IF rest.threw THEN Raised
          ELSE R(rest.ok, res.warnings \o rest.warnings, FALSE)

\* The sequences lo..hi of a sequence of sequences, one after the other.
RECURSIVE Flatten(_, _, _)
Flatten(seqs, lo, hi) ==
  IF lo > hi THEN <<>>
  ELSE IF lo = hi THEN seqs[lo]
  ELSE Flatten(seqs, lo, (lo + hi) \div 2) \o Flatten(seqs, (lo + hi) \div 2 + 1, hi)

\* for (const part of filter.or): every part is evaluated; rs are the
\* results of the parts, in order.
orFilterResult(rs) ==
  IF \E i \in 1..Len(rs) : rs[i].threw THEN Raised
  ELSE R(\E i \in 1..Len(rs) : rs[i].ok, Flatten([i \in 1..Len(rs) |-> rs[i].warnings], 1, Len(rs)), FALSE)

\* orFilterLoop that returns at the first part that passes.
orFilterLoopShortCircuit(file, parts, schema) ==
  IF parts = <<>> THEN R(FALSE, <<>>, FALSE)
  ELSE LET res == evaluateFilter(file, Head(parts), schema)
           rest == orFilterLoopShortCircuit(file, Tail(parts), schema)
       IN IF res.threw THEN Raised
          ELSE IF res.ok THEN R(TRUE, res.warnings, FALSE)
          ELSE IF rest.threw THEN Raised
          ELSE R(rest.ok, res.warnings \o rest.warnings, FALSE)

\* for (const part of filter.or), over the parts of the filter.
orFilterLoop(file, parts, schema) ==
  orFilterResult([i \in 1..Len(parts) |-> evaluateFilter(file, parts[i], schema)])

evaluateFilter(file, filter, schema) ==
  IF Falsy(filter) THEN R(TRUE, <<>>, FALSE)
  ELSE IF filter.k = "str" THEN evaluateStatement(file, filter.s, schema)
  ELSE IF filter.k = "and" THEN andFilterLoop(file, filter.c, schema)
  ELSE IF filter.k = "or" THEN orFilterLoop(file, filter.c, schema)
  ELSE IF filter.k = "not" /\ ~Falsy(filter.c[1]) THEN negate(evaluateFilter(file, filter.c[1], schema))
  ELSE R(TRUE, <<WarnUnknownShape>>, FALSE)

(* ------------------------------------------------------------------ *)
(* State                                                               *)
(* ------------------------------------------------------------------ *)

VARIABLES
  notes,           \* the vault's files in enumeration order, with their metadata
  bases,           \* the parsed spec of every base file, by path
  engineEnabled,   \* settings.engineEnabled
  headlessMounted, \* the headless view has been registered
  cache,           \* ENGINE_CACHE: snapshots by key
  clock,           \* Date.now()
  resp,            \* the response a handler has just sent
  scan,            \* the pages a client has read of one request, in page order
  ups,             \* the upsert request being handled, at its suspension
  probe            \* one evaluation of the interpreter with its result

sysvars == <<notes, bases, engineEnabled, headlessMounted, cache, clock, resp, scan, ups>>
vars == <<notes, bases, engineEnabled, headlessMounted, cache, clock, resp, scan, ups, probe>>

None == [kind |-> "none"]

(* ------------------------------------------------------------------ *)
(* The vault and the inputs of the model                               *)
(* ------------------------------------------------------------------ *)

NoteA ==
  [path |-> <<"A",".","m","d">>, size |-> 10, ctime |-> 1, mtime |-> 2,
   fm |-> (<<"s","t","a","t","u","s">> :> Str(<<"d","o","n","e">>)) @@ (<<"p","r","i","o","r","i","t","y">> :> Num(3)),
   tags |-> <<<<"#","w","o","r","k">>, <<"#","u","r","g","e","n","t">>>>, links |-> <<<<"N","o","t","e">>>>]
NoteB ==
  [path |-> <<"P","r","o","j","/","B",".","m","d">>, size |-> 20, ctime |-> 1, mtime |-> 1,
   fm |-> (<<"p","r","i","o","r","i","t","y">> :> Num(0)) @@ (<<"t","i","t","l","e">> :> Str(<<"c","a","t","s"," ","a","n","d"," ","d","o","g","s">>)) @@ (<<"t","a","g","s">> :> Str(<<"x",","," ","#","y">>)),
   tags |-> <<>>, links |-> <<<<"A","t","l","a","s","/","M","a","p","s",".","m","d">>>>]
NoteC ==
  [path |-> <<"C",".","m","d">>, size |-> 5, ctime |-> 2, mtime |-> 2,
   fm |-> (<<"p","r","i","o","r","i","t","y">> :> Str(<<"7">>)) @@ (<<"s","t","a","t","u","s">> :> Str(<<>>)) @@ (<<"f","l","a","g">> :> Bool(TRUE))
          @@ (<<"s","c","o","r","e">> :> Tenths(25)) @@ (<<"d","a","n","s">> :> Arr(<<Str(<<"[","[","A","t","l","a","s","/","M","a","p","s","]","]">>)>>)),
   tags |-> <<<<"#","w","o","r","k">>>>, links |-> <<>>]
HostConfig ==
  [path |-> <<".","o","b","s","i","d","i","a","n","/","a","p","p",".","m","d">>, size |-> 1, ctime |-> 1, mtime |-> 1,
   fm |-> (<<"p","r","i","o","r","i","t","y">> :> Num(9)), tags |-> <<>>, links |-> <<>>]
BaseFile ==
  [path |-> <<"b",".","b","a","s","e">>, size |-> 1, ctime |-> 1, mtime |-> 1,
   fm |-> (<<"p","r","i","o","r","i","t","y">> :> Num(9)), tags |-> <<>>, links |-> <<>>]

ProbeNotes == {NoteA, NoteB, NoteC}

Property(key, kind) == [key |-> key, kind |-> kind]
Formula(key, expr) == [key |-> key, expr |-> expr]
View(name, limit, hasOrder, order, filters) ==
  [name |-> name, limit |-> limit, hasOrder |-> hasOrder, order |-> order, filters |-> filters]

\* The parsed YAML of base b.base: properties status, priority and file.name,
\* formulas label and tagline, views all and top.
BaseSpecB ==
  [properties |-> <<<<"s","t","a","t","u","s">>, <<"p","r","i","o","r","i","t","y">>, <<"f","i","l","e",".","n","a","m","e">>>>,
   formulas |-> <<Formula(<<"l","a","b","e","l">>, <<"i","f","(","p","r","i","o","r","i","t","y",","," ","'","h","a","s","-","p","r","i","o","r","i","t","y","'",","," ","'","n","o","n","e","'",")">>),
                  Formula(<<"t","a","g","l","i","n","e">>, <<"j","o","i","n","(","l","i","s","t","(","t","a","g","s",")",")">>)>>,
   views |-> <<View(<<"a","l","l">>, Undef, FALSE, <<>>, FNull),
               View(<<"t","o","p">>, Num(2), TRUE, <<<<"-","p","r","i","o","r","i","t","y">>>>, FStr(<<"p","r","i","o","r","i","t","y">>))>>,
   filters |-> FNull]

\* A base spec: properties (keys in order), formulas <<[key, expr]>>, views
\* <<[name, limit, hasOrder, order, filters]>> and filters.  The schema adds
\* the formulas to the properties and tags every property with its kind.
extractSchema(basePath, spec) ==
  [id |-> basePath,
   properties |->
     [i \in 1..Len(spec.properties) |->
        Property(spec.properties[i],
                 IF StartsWith(spec.properties[i], <<"f","i","l","e",".">>) THEN "file" ELSE "note")]
     \o [i \in 1..Len(spec.formulas) |-> Property(spec.formulas[i].key, "formula")],
   formulas |-> spec.formulas,
   views |->
     [i \in 1..Len(spec.views) |->
        View(spec.views[i].name,
             IF spec.views[i].limit.t = "num" THEN spec.views[i].limit ELSE Undef,
             spec.views[i].hasOrder, spec.views[i].order, spec.views[i].filters)],
   filters |-> spec.filters]

SchemaB == extractSchema(<<"b",".","b","a","s","e">>, BaseSpecB)

(* ------------------------------------------------------------------ *)
(* Evaluations of the interpreter (specification SpecEval)             *)
(* ------------------------------------------------------------------ *)

\* Statements that no rule of the grammar matches.
UnrecognisedPool == {<<"f","o","o"," ","b","a","r">>, <<"f","i","l","e",".","u","n","k","n","o","w","n","(",")">>, <<"(","p","r","i","o","r","i","t","y",")">>}

\* Statements without "or" and "||".
AndPool ==
  {<<"p","r","i","o","r","i","t","y"," ",">","="," ","2">>, <<"s","t","a","t","u","s"," ","="," ","'","d","o","n","e","'">>, <<"t","i","t","l","e"," ","=","="," ","'","c","a","t","s"," ","a","n","d"," ","d","o","g","s","'">>, <<"f","o","o"," ","b","a","r">>,
   <<"n","o","t"," ","f","l","a","g">>, <<"!","p","r","i","o","r","i","t","y">>, <<"f","i","l","e",".","h","a","s","T","a","g","(","'","w","o","r","k","'",")">>, <<"f","l","a","g"," ","&","&"," ","p","r","i","o","r","i","t","y"," ",">"," ","1">>,
   <<"z","z","z"," ","q","q">>, <<"s","t","a","t","u","s"," ","!","="," ","\"","x"," ","a","n","d"," ","y","\"">>, <<"f","l","a","g"," ","a","n","d"," ","p","r","i","o","r","i","t","y"," ",">"," ","1">>}

StatementPool ==
  AndPool \cup UnrecognisedPool \cup
  {<<"s","t","a","t","u","s"," ","="," ","'","d","o","n","e","'"," ","a","n","d"," ","p","r","i","o","r","i","t","y"," ",">","="," ","2">>, <<"f","i","l","e",".","h","a","s","T","a","g","(","'","m","i","s","s","i","n","g","'",")">>, <<"f","i","l","e",".","h","a","s","T","a","g","(","\"","#","u","r","g","e","n","t","\"",")">>,
   <<"p","r","i","o","r","i","t","y">>, <<"s","t","a","t","u","s">>, <<"f","l","a","g">>, <<"m","i","s","s","i","n","g">>, <<"d","a","n","s">>, <<"n","o","t","e",".","p","r","i","o","r","i","t","y">>,
   <<"n","o","t"," ","p","r","i","o","r","i","t","y"," ",">"," ","2">>, <<"f","i","l","e",".","i","n","F","o","l","d","e","r","(","'","P","r","o","j","'",")">>, <<"f","i","l","e",".","i","n","F","o","l","d","e","r","(","\"","\"",")">>,
   <<"f","i","l","e",".","h","a","s","L","i","n","k","(","'","N","o","t","e",".","m","d","'",")">>, <<"f","i","l","e",".","h","a","s","L","i","n","k","(","'","[","[","N","o","t","e","]","]","'",")">>, <<"f","i","l","e",".","h","a","s","L","i","n","k","(","'","A","t","l","a","s","/","M","a","p","s","'",")">>,
   <<"[","'","m","d","'",",","'","t","x","t","'","]",".","c","o","n","t","a","i","n","s","(","f","i","l","e",".","e","x","t",")">>, <<"[","\"","d","o","n","e","\"",","," ","\"","o","p","e","n","\"","]",".","c","o","n","t","a","i","n","s","(","s","t","a","t","u","s",")">>,
   <<"f","i","l","e",".","p","a","t","h",".","s","t","a","r","t","s","W","i","t","h","(","'","P","r","o","j","'",")">>, <<"f","i","l","e",".","p","a","t","h",".","c","o","n","t","a","i","n","s","(","\"","B","\"",")">>,
   <<"f","i","l","e",".","f","o","l","d","e","r",".","s","t","a","r","t","s","W","i","t","h","(","'","P","r","o","'",")">>, <<"f","i","l","e",".","f","o","l","d","e","r",".","c","o","n","t","a","i","n","s","(","'","r","o","j","'",")">>,
   <<"f","i","l","e",".","t","a","g","s",".","c","o","n","t","a","i","n","s","(","'","x","'",")">>, <<"f","i","l","e",".","n","a","m","e",".","c","o","n","t","a","i","n","s","(","'","A","'",")">>, <<"f","i","l","e",".","e","x","t",".","s","t","a","r","t","s","W","i","t","h","(","'","m","'",")">>,
   <<"d","a","n","s",".","c","o","n","t","a","i","n","s","(","l","i","n","k","(","'","A","t","l","a","s","/","M","a","p","s","'",")",")">>, <<"l","i","s","t","(","d","a","n","s",")",".","c","o","n","t","a","i","n","s","(","l","i","n","k","(","'","[","[","A","t","l","a","s","/","M","a","p","s","]","]","'",")",")">>,
   <<"d","a","n","s",".","c","o","n","t","a","i","n","s","(","l","i","n","k","(","\"","[","[","A","t","l","a","s","/","M","a","p","s","]","]","\"",")",")">>,
   <<"p","r","i","o","r","i","t","y"," ",">"," ","2"," ","o","r"," ","f","o","o"," ","b","a","r">>, <<"s","t","a","t","u","s"," ","=","="," ","'","x","'"," ","|","|"," ","f","l","a","g">>, <<"p","r","i","o","r","i","t","y"," ",">","="," ","2"," ","&","&"," ","f","l","a","g">>,
   <<"f","o","r","m","u","l","a",".","l","a","b","e","l"," ","=","="," ","'","n","o","n","e","'">>, <<"f","i","l","e",".","s","i","z","e"," ",">"," ","5">>, <<"p","r","i","o","r","i","t","y","<","3">>, <<"s","t","a","t","u","s"," ","="," ","t","r","u","e">>,
   <<"t","i","t","l","e"," ","=","="," ","'","c","a","t","s"," ","o","r"," ","d","o","g","s","'">>, <<>>, <<" "," "," ">>}

FilterChildPool ==
  {FStr(<<"p","r","i","o","r","i","t","y"," ",">","="," ","2">>), FStr(<<"f","l","a","g">>), FStr(<<"f","o","o"," ","b","a","r">>), FStr(<<"z","z","z"," ","q","q">>), FOther, FNull,
   FNot(FStr(<<"f","l","a","g">>))}

FormulaPool ==
  {<<"i","f","(","p","r","i","o","r","i","t","y",","," ","'","h","a","s","-","p","r","i","o","r","i","t","y","'",","," ","'","n","o","n","e","'",")">>, <<"i","f","(","f","l","a","g",","," ","p","r","i","o","r","i","t","y",","," ","'","n","o","n","e","'",")">>,
   <<"i","f","(","m","i","s","s","i","n","g",","," ","'","a","'",","," ","i","f","(","s","t","a","t","u","s",","," ","'","b","'",","," ","'","c","'",")",")">>, <<"i","f","(","s","c","o","r","e",","," ","s","t","a","t","u","s",","," ","5",")">>,
   <<"n","u","l","l">>, <<"-","2",".","5">>, <<"4","2">>, <<"'","t","e","x","t","'">>, <<"\"","a",","," ","b","\"">>, <<"p","r","i","o","r","i","t","y">>, <<"f","i","l","e",".","n","a","m","e">>, <<"n","o","t","e",".","s","t","a","t","u","s">>,
   <<"f","o","r","m","u","l","a",".","l","a","b","e","l">>, <<"f","o","r","m","u","l","a",".","m","i","s","s","i","n","g">>, <<"j","o","i","n","(","l","i","s","t","(","t","a","g","s",")",")">>, <<"j","o","i","n","("," ","l","i","s","t","("," ","d","a","n","s"," ",")"," ",")">>,
   <<"l","i","s","t","(","p","r","i","o","r","i","t","y",")">>, <<"l","i","s","t","(","m","i","s","s","i","n","g",")">>, <<"l","i","s","t"," ","(","d","a","n","s",")">>, <<"i","f","(","a",","," ","b",")">>, <<"1"," ","+"," ","2">>, <<>>,
   <<"i","f","(","t","i","t","l","e",","," ","t","i","t","l","e",","," ","'","x",","," ","y","'",")">>}

CompareOps == <<<<">">>, <<"<","=">>, <<"<">>, <<">","=">>, <<"=","=">>, <<"!","=">>, <<"=">>>>
CompareKeys == {<<"p","r","i","o","r","i","t","y">>, <<"s","c","o","r","e">>, <<"f","i","l","e",".","s","i","z","e">>, <<"s","t","a","t","u","s">>, <<"m","i","s","s","i","n","g">>}
CompareLiterals == {<<"0">>, <<"2">>, <<"3">>, <<"2",".","5">>, <<"-","1">>, <<"7">>, <<"3",".","0">>, <<"1","0">>, <<"2","0">>}
Spacings == {<<>>, <<" ">>}

CompareStatement(key, sp, op, lit) == key \o sp \o op \o sp \o lit

\* The results of a note's evaluations of some statements, of some filters.
statementResults(n, statements) ==
  [i \in 1..Len(statements) |-> evaluateStatement(n, statements[i], SchemaB)]
filterResults(n, filters) ==
  [i \in 1..Len(filters) |-> evaluateFilter(n, filters[i], SchemaB)]

ProbeStatement ==
  /\ probe = None
  /\ UNCHANGED sysvars
  /\ \E n \in ProbeNotes, s \in StatementPool :
       probe' = [kind |-> "stmt", note |-> n, stmt |-> s, res |-> evaluateStatement(n, s, SchemaB)]

\* An unrecognised statement, or an object of unknown shape, alone, under a
\* negation, and as the only child of a combinator.
UnrecognisedWrappers == {"bare", "notWord", "bang", "notNode", "andNode", "orNode", "notShape", "shape"}
WrapUnrecognised(w, u) ==
  CASE w = "bare" -> FStr(u)
    [] w = "notWord" -> FStr(<<"n","o","t"," ">> \o u)
    [] w = "bang" -> FStr(<<"!">> \o u)
    [] w = "notNode" -> FNot(FStr(u))
    [] w = "andNode" -> FAnd(<<FStr(u)>>)
    [] w = "orNode" -> FOr(<<FStr(u)>>)
    [] w = "notShape" -> FNot(FOther)
    [] OTHER -> FOther

ProbeUnrecognised ==
  /\ probe = None
  /\ UNCHANGED sysvars
  /\ \E n \in ProbeNotes, u \in UnrecognisedPool, w \in UnrecognisedWrappers :
       probe' = [kind |-> "unrec", note |-> n, wrapper |-> w, stmt |-> u,
                 res |-> evaluateFilter(n, WrapUnrecognised(w, u), SchemaB)]

\* {or: [c1, c2, c3]} and each of its children alone.
ProbeOr ==
  /\ probe = None
  /\ UNCHANGED sysvars
  /\ \E n \in ProbeNotes, c1 \in FilterChildPool, c2 \in FilterChildPool, c3 \in FilterChildPool :
       \E rs \in {filterResults(n, <<FOr(<<c1, c2, c3>>), c1, c2, c3>>)} :
         probe' = [kind |-> "or", note |-> n, children |-> <<c1, c2, c3>>,
                   res |-> rs[1], childRes |-> Tail(rs)]

\* {and: [c1, c2]} and each of its children alone.
ProbeAndFilter ==
  /\ probe = None
  /\ UNCHANGED sysvars
  /\ \E n \in ProbeNotes, c1 \in FilterChildPool, c2 \in FilterChildPool :
       \E rs \in {filterResults(n, <<FAnd(<<c1, c2>>), c1, c2>>)} :
         probe' = [kind |-> "andf", note |-> n, children |-> <<c1, c2>>,
                   res |-> rs[1], childRes |-> Tail(rs)]

\* "a and b" (or "a && b"), a alone and b alone.
ProbeAnd ==
  /\ probe = None
  /\ UNCHANGED sysvars
  /\ \E n \in ProbeNotes, a \in AndPool, b \in AndPool, sep \in {<<" ","a","n","d"," ">>, <<" ","&","&"," ">>} :
       \E rs \in {statementResults(n, <<a \o sep \o b, a, b>>)} :
         probe' = [kind |-> "and", note |-> n, a |-> a, b |-> b,
                   res |-> rs[1], resA |-> rs[2], resB |-> rs[3]]

\* x op c for every operator op.
ProbeCompare ==
  /\ probe = None
  /\ UNCHANGED sysvars
  /\ \E n \in ProbeNotes, key \in CompareKeys, lit \in CompareLiterals, sp \in Spacings :
       \E rs \in {statementResults(n, [i \in 1..Len(CompareOps) |-> CompareStatement(key, sp, CompareOps[i], lit)])} :
         probe' = [kind |-> "cmp", note |-> n, key |-> key, lit |-> lit,
                   left |-> getValueForRef(n, key, SchemaB, 0),
                   ok |-> [i \in 1..Len(CompareOps) |-> rs[i].ok]]

\* x > y, y > c and x > c for the numbers x, y of two keys of a note and a
\* literal c.
ProbeTransitive ==
  /\ probe = None
  /\ UNCHANGED sysvars
  /\ \E n \in ProbeNotes, kx \in CompareKeys, ky \in CompareKeys, lit \in CompareLiterals :
       \E xy \in {[i \in 1..2 |-> getValueForRef(n, <<kx, ky>>[i], SchemaB, 0)]} :
         /\ xy[1].t = "num"
         /\ xy[2].t = "num"
         /\ \E rs \in {statementResults(n, <<CompareStatement(kx, <<" ">>, <<">">>, NumToStr(xy[2].n)),
                                               CompareStatement(ky, <<" ">>, <<">">>, lit),
                                               CompareStatement(kx, <<" ">>, <<">">>, lit)>>)} :
              probe' = [kind |-> "trans", note |-> n, key |-> kx, otherKey |-> ky, lit |-> lit,
                        xy |-> rs[1].ok, yc |-> rs[2].ok, xc |-> rs[3].ok]

ProbeFormula ==
  /\ probe = None
  /\ UNCHANGED sysvars
  /\ \E n \in ProbeNotes, e \in FormulaPool :
       probe' = [kind |-> "formula", note |-> n, expr |-> e,
                 res |-> evalFormulaExpression(n, e, SchemaB, 0)]

\* A note whose frontmatter holds every kind of value the truthiness rule
\* tells apart.
NoteD ==
  [path |-> <<"D",".","m","d">>, size |-> 1, ctime |-> 1, mtime |-> 1,
   fm |-> (<<"z","e","r","o">> :> Num(0)) @@ (<<"n","i","l">> :> Null) @@ (<<"o","f","f">> :> Bool(FALSE)) @@ (<<"o","n">> :> Bool(TRUE))
          @@ (<<"b","l","a","n","k">> :> Str(<<>>)) @@ (<<"s","p","a","c","e","s">> :> Str(<<" ", " ">>)) @@ (<<"w","o","r","d">> :> Str(<<"w">>))
          @@ (<<"n","o","n","e">> :> Arr(<<>>)) @@ (<<"i","t","e","m","s">> :> Arr(<<Num(0)>>))
          @@ (<<"b","a","g">> :> Obj(0)) @@ (<<"f","u","l","l">> :> Obj(2)) @@ (<<"m","i","n","u","s">> :> Tenths(-15)),
   tags |-> <<>>, links |-> <<>>]

TruthinessKeys ==
  {<<"z","e","r","o">>, <<"n","i","l">>, <<"o","f","f">>, <<"o","n">>, <<"b","l","a","n","k">>, <<"s","p","a","c","e","s">>, <<"w","o","r","d">>, <<"n","o","n","e">>, <<"i","t","e","m","s">>,
   <<"b","a","g">>, <<"f","u","l","l">>, <<"m","i","n","u","s">>, <<"a","b","s","e","n","t">>, <<"p","r","i","o","r","i","t","y">>, <<"s","t","a","t","u","s">>, <<"f","l","a","g">>, <<"d","a","n","s">>}

\* The bare identifier k as a filter, and if(k, file.path, 'else') as a formula.
ProbeTruthiness ==
  /\ probe = None
  /\ UNCHANGED sysvars
  /\ \E n \in ProbeNotes \cup {NoteD}, k \in TruthinessKeys :
       probe' = [kind |-> "truthy", note |-> n, key |-> k,
                 value |-> getValueForRef(n, k, SchemaB, 0),
                 bare |-> evaluateStatement(n, k, SchemaB),
                 cond |-> evalFormulaExpression(n, <<"i","f","(">> \o k \o <<","," ","f","i","l","e",".","p","a","t","h",","," ","'","e","l","s","e","'",")">>, SchemaB, 0)]

\* Bases whose formulas refer to themselves, to one another in a cycle, or
\* to one another in a chain that ends.
FormulaSetPool ==
  {<<Formula(<<"a">>, <<"f","o","r","m","u","l","a",".","a">>)>>,
   <<Formula(<<"a">>, <<"f","o","r","m","u","l","a",".","b">>), Formula(<<"b">>, <<"f","o","r","m","u","l","a",".","a">>)>>,
   <<Formula(<<"a">>, <<"i","f","(","m","i","s","s","i","n","g",","," ","p","r","i","o","r","i","t","y",","," ","f","o","r","m","u","l","a",".","a",")">>)>>,
   <<Formula(<<"a">>, <<"i","f","(","p","r","i","o","r","i","t","y",","," ","f","o","r","m","u","l","a",".","b",","," ","'","x","'",")">>), Formula(<<"b">>, <<"j","o","i","n","(","l","i","s","t","(","f","o","r","m","u","l","a",".","a",")",")">>)>>,
   <<Formula(<<"a">>, <<"l","i","s","t","(","f","o","r","m","u","l","a",".","b",")">>), Formula(<<"b">>, <<"f","o","r","m","u","l","a",".","c">>), Formula(<<"c">>, <<"f","o","r","m","u","l","a",".","a">>)>>,
   <<Formula(<<"a">>, <<"f","o","r","m","u","l","a",".","b">>), Formula(<<"b">>, <<"f","o","r","m","u","l","a",".","c">>), Formula(<<"c">>, <<"p","r","i","o","r","i","t","y">>)>>,
   <<Formula(<<"a">>, <<"i","f","(","m","i","s","s","i","n","g",","," ","p","r","i","o","r","i","t","y",","," ","f","o","r","m","u","l","a",".","b",")">>), Formula(<<"b">>, <<"'","e","n","d","'">>)>>,
   <<Formula(<<"a">>, <<"f","o","r","m","u","l","a",".","m","i","s","s","i","n","g">>), Formula(<<"b">>, <<"f","o","r","m","u","l","a",".","a">>)>>}

FormulaSetSchema(formulas) ==
  extractSchema(<<"c",".","b","a","s","e">>, [properties |-> <<<<"p","r","i","o","r","i","t","y">>>>, formulas |-> formulas,
                            views |-> <<>>, filters |-> FNull])

\* formula.<key> resolved under such a base, and the rows built under it.
ProbeFormulaRef ==
  /\ probe = None
  /\ UNCHANGED sysvars
  /\ \E n \in ProbeNotes, fs \in FormulaSetPool :
       \E k \in 1..Len(fs), schema \in {FormulaSetSchema(fs)} :
         probe' = [kind |-> "ref", note |-> n, formulas |-> fs, key |-> fs[k].key,
                   res |-> getValueForRef(n, <<"f","o","r","m","u","l","a",".">> \o fs[k].key, schema, 0),
                   props |-> buildRowProps(n, schema),
                   computed |-> buildComputed(n, schema)]

\* file.hasLink(<arg>) for the ways of writing a link to a note.
LinkArguments ==
  {<<"'","N","o","t","e","'">>, <<"'","N","o","t","e",".","m","d","'">>, <<"'","[","[","N","o","t","e","]","]","'">>, <<"'","[","[","N","o","t","e","|","A","l","i","a","s","]","]","'">>, <<"'","N","o","t","e","#","H","e","a","d","i","n","g","'">>, <<"\"","N","o","t","e",".","M","D","\"">>,
   <<"N","o","t","e">>, <<"'","O","t","h","e","r","'">>, <<"'","A","t","l","a","s","/","M","a","p","s","'">>, <<"'","A","t","l","a","s","/","M","a","p","s",".","m","d","'">>, <<"'","[","[","A","t","l","a","s","/","M","a","p","s",".","m","d","]","]","'">>, <<"'"," ","N","o","t","e"," ","'">>, <<"'","'">>}
ProbeHasLink ==
  /\ probe = None
  /\ UNCHANGED sysvars
  /\ \E n \in ProbeNotes, arg \in LinkArguments :
       probe' = [kind |-> "haslink", note |-> n, arg |-> arg,
                 res |-> evaluateStatement(n, <<"f","i","l","e",".","h","a","s","L","i","n","k","(">> \o arg \o <<")">>, SchemaB)]

\* Notes whose property dans holds links, written in several ways.
DansNote(name, dans) ==
  [path |-> name, size |-> 1, ctime |-> 1, mtime |-> 1,
   fm |-> (<<"d","a","n","s">> :> dans) @@ (<<"p","r","i","o","r","i","t","y">> :> Num(1)), tags |-> <<>>, links |-> <<>>]
DansValues ==
  {Str(<<"[","[","A","t","l","a","s","/","M","a","p","s","]","]">>), Arr(<<Str(<<"A","t","l","a","s","/","M","a","p","s",".","m","d">>)>>), Str(<<"A","t","l","a","s","/","M","a","p","s">>), Null,
   Arr(<<Str(<<"O","t","h","e","r">>), Str(<<"[","[","A","t","l","a","s","/","M","a","p","s","|","C","a","r","t","e","s","]","]">>)>>), Arr(<<Str(<<"A","t","l","a","s","/","M","a","p","s","#","N","o","r","d">>)>>), Arr(<<>>),
   Str(<<"O","t","h","e","r",".","m","d">>), Num(3)}
LinkTargets ==
  {<<"\"","A","t","l","a","s","/","M","a","p","s","\"">>, <<"'","A","t","l","a","s","/","M","a","p","s","'">>, <<"'","[","[","A","t","l","a","s","/","M","a","p","s","]","]","'">>, <<"\"","A","t","l","a","s","/","M","a","p","s",".","m","d","\"">>, <<"'","A","t","l","a","s","/","M","a","p","s","|","C","a","r","t","e","s","'">>,
   <<"'","O","t","h","e","r","'">>, <<"'","3","'">>}

\* <prop>.contains(link(<target>)) and list(<prop>).contains(link(<target>)).
ProbeContainsLink ==
  /\ probe = None
  /\ UNCHANGED sysvars
  /\ \E dans \in DansValues, key \in {<<"d","a","n","s">>, <<"m","i","s","s","i","n","g">>}, target \in LinkTargets, listed \in BOOLEAN :
       \E n \in {DansNote(<<"E",".","m","d">>, dans)} :
         probe' = [kind |-> "contains", note |-> n, key |-> key, target |-> target, listed |-> listed,
                   value |-> getValueForRef(n, key, SchemaB, 0),
                   res |-> evaluateStatement(
                             n, (IF listed THEN <<"l","i","s","t","(">> \o key \o <<")">> ELSE key)
                                \o <<".","c","o","n","t","a","i","n","s","(","l","i","n","k","(">> \o target \o <<")",")">>, SchemaB)]

\* Comparisons with a quoted literal that holds a logical operator, alone
\* and followed by a logical operator outside the quotes.
QuotedLiterals ==
  {<<"c","a","t","s"," ","a","n","d"," ","d","o","g","s">>, <<"c","a","t","s"," ","o","r"," ","d","o","g","s">>, <<"a"," ","&","&"," ","b">>, <<"a","|","|","b">>, <<"x"," ","a","n","d"," ","y"," ","o","r"," ","z">>, <<"i","t","'","s"," ","o","r"," ","n","o","t">>,
   <<"s","a","y"," ","\"","a","n","d","\""," ","n","o","w">>, <<"p","l","a","i","n">>}
QuotedNote(title) ==
  [path |-> <<"Q",".","m","d">>, size |-> 1, ctime |-> 1, mtime |-> 1,
   fm |-> (<<"t","i","t","l","e">> :> Str(title)) @@ (<<"f","l","a","g">> :> Bool(TRUE)), tags |-> <<>>, links |-> <<>>]
QuotedTails == {<<>>, <<" ","a","n","d"," ","f","l","a","g">>, <<" ","&","&"," ","m","i","s","s","i","n","g">>, <<" ","o","r"," ","m","i","s","s","i","n","g">>, <<" ","|","|"," ","f","l","a","g">>}

ProbeQuoted ==
  /\ probe = None
  /\ UNCHANGED sysvars
  /\ \E held \in QuotedLiterals, literal \in QuotedLiterals, op \in {<<"=","=">>, <<"=">>, <<"!","=">>},
        quote \in {"'", "\""}, tail \in QuotedTails :
       /\ \A i \in 1..Len(literal) : literal[i] # quote
       /\ probe' = [kind |-> "quoted", note |-> QuotedNote(held), literal |-> literal, op |-> op, tail |-> tail,
                    res |-> evaluateStatement(QuotedNote(held),
                                              <<"t","i","t","l","e"," ">> \o op \o <<" ", quote>> \o literal \o <<quote>> \o tail,
                                              SchemaB)]

\* The then branches of if(cond, then, 0): a quoted string, a number,
\* null, list(x), join(list(x)), a nested if(...), and references.
ThenBranches ==
  {<<"'","y","e","s","'">>, <<"\"","y","e","s","\"">>, <<"7">>, <<"n","u","l","l">>, <<"l","i","s","t","(","t","a","g","s",")">>, <<"j","o","i","n","(","l","i","s","t","(","t","a","g","s",")",")">>,
   <<"i","f","(","f","l","a","g",",","s","t","a","t","u","s",",","0",")">>, <<"s","t","a","t","u","s">>, <<"f","i","l","e",".","n","a","m","e">>, <<"f","o","r","m","u","l","a",".","t","a","g","l","i","n","e">>}
ThenConditions == {<<"p","r","i","o","r","i","t","y">>, <<"s","t","a","t","u","s">>, <<"f","i","l","e",".","p","a","t","h">>, <<"f","l","a","g">>}

\* if(cond, then, 0) on a note, with the value of the condition and the
\* value of the then branch evaluated as an expression of its own.
ProbeIfThen ==
  /\ probe = None
  /\ UNCHANGED sysvars
  /\ \E n \in ProbeNotes, cond \in ThenConditions, branch \in ThenBranches :
       probe' = [kind |-> "ifthen", note |-> n, cond |-> cond, branch |-> branch,
                 condVal |-> getValueForRef(n, cond, SchemaB, 0),
                 res |-> evalFormulaExpression(n, <<"i","f","(">> \o cond \o <<","," ">> \o branch \o <<","," ","0",")">>, SchemaB, 0),
                 direct |-> evalFormulaExpression(n, branch, SchemaB, 0)]
(* ------------------------------------------------------------------ *)
(* The Schema Extractor and the Query Planner                          *)
(* ------------------------------------------------------------------ *)

\* Math.trunc of a number held in tenths.
Trunc(tenths) == IF tenths >= 0 THEN tenths \div 10 ELSE -((-tenths) \div 10)

\* clampNum without its lower bound.
clampNumNoFloor(num, fallback, min, max) == IF ~num.fin THEN fallback ELSE Min(max, Trunc(num.n))

\* Math.max(min, Math.min(max, Math.trunc(num))) for a finite num.
clampNum(num, fallback, min, max) == IF ~num.fin THEN fallback ELSE Max(min, Min(max, Trunc(num.n)))

clampInt(value, fallback, min, max) == clampNum(ToNumber(value), fallback, min, max)

\* a ?? b
Coalesce(a, b) == IF a.t \in {"undef", "null"} THEN b ELSE a

NoView == View(<<>>, Undef, FALSE, <<>>, FNull)

\* viewName ? schema.views.find((v) => v.name === viewName) : schema.views[0]
findView(views, viewName) ==
  IF \E i \in 1..Len(views) : views[i].name = viewName
  THEN views[CHOOSE i \in 1..Len(views) : views[i].name = viewName /\ \A j \in 1..(i - 1) : views[j].name # viewName]
  ELSE NoView
selectView(schema, body) ==
  IF body.view.t = "str" /\ body.view.s # <<>> THEN findView(schema.views, body.view.s)
  ELSE IF Len(schema.views) > 0 THEN schema.views[1] ELSE NoView

DefaultLimit == 20
MinLimit == 1
MaxLimit == 500
MaxPage == 1000000
effectiveLimit(view, body) ==
  clampInt(Coalesce(body.limit, Coalesce(view.limit, Num(DefaultLimit))), DefaultLimit, MinLimit, MaxLimit)
effectivePage(body) == clampInt(Coalesce(body.page, Num(1)), 1, 1, MaxPage)

\* { and: [schema.filters, view?.filters, body?.filter].filter(Boolean) }
RECURSIVE Truthies(_)
Truthies(filters) ==
  IF filters = <<>> THEN <<>>
  ELSE (IF Falsy(Head(filters)) THEN <<>> ELSE <<Head(filters)>>) \o Truthies(Tail(filters))
combinedFilter(schema, view, body) == FAnd(Truthies(<<schema.filters, view.filters, body.filter>>))

\* getFiles().filter((f) => !f.path.startsWith(".obsidian/") && f.extension !== "base")
RECURSIVE candidateFiles(_)
candidateFiles(files) ==
  IF files = <<>> THEN <<>>
  ELSE (IF ~StartsWith(Head(files).path, <<".","o","b","s","i","d","i","a","n","/">>) /\ FileExtension(Head(files).path) # <<"b","a","s","e">>
        THEN <<Head(files)>> ELSE <<>>)
       \o candidateFiles(Tail(files))

\* The collation of localeCompare for the characters of the model: blanks
\* and punctuation, then symbols, then digits, then letters; a letter's case
\* only breaks ties, lower case first.
CollationOrder ==
  <<" ","_","-",",",":","!",".","'","\"","(",")","[","]","{","}","*","/","\\","&","#",
    "<","=",">","|",
    "0","1","2","3","4","5","6","7","8","9",
    "a","b","c","d","e","f","g","h","i","j","k","l","m","n","o","p","q","r","s","t","u","v","w","x","y","z">>
PrimaryKey(c) == IndexIn(CollationOrder, ToLowerChar(c))
RECURSIVE PrimaryCmp(_, _)
PrimaryCmp(a, b) ==
  IF a = <<>> /\ b = <<>> THEN 0
  ELSE IF a = <<>> THEN -1
  ELSE IF b = <<>> THEN 1
  ELSE IF Head(a) = Head(b) THEN PrimaryCmp(Tail(a), Tail(b))
  ELSE IF PrimaryKey(Head(a)) < PrimaryKey(Head(b)) THEN -1
  ELSE IF PrimaryKey(Head(a)) > PrimaryKey(Head(b)) THEN 1
  ELSE PrimaryCmp(Tail(a), Tail(b))
RECURSIVE CaseCmp(_, _)
CaseCmp(a, b) ==
  IF a = <<>> \/ b = <<>> THEN 0
  ELSE IF Head(a) = Head(b) THEN CaseCmp(Tail(a), Tail(b))
  ELSE IF Head(a) \in Range(LowerCase) THEN -1 ELSE 1
localeCompare(a, b) == IF PrimaryCmp(a, b) # 0 THEN PrimaryCmp(a, b) ELSE CaseCmp(a, b)

\* Array.prototype.sort with localeCompare, which orders strings
\* consistently: each string is put at its place in the strings sorted so
\* far, found by bisection.
RECURSIVE searchSorted(_, _, _, _)
searchSorted(sorted, x, left, right) ==
  IF left >= right THEN left
  ELSE IF localeCompare(x, sorted[left + ((right - left) \div 2) + 1]) < 0
  THEN searchSorted(sorted, x, left, left + ((right - left) \div 2))
  ELSE searchSorted(sorted, x, left + ((right - left) \div 2) + 1, right)
InsertSorted(sorted, at, x) == SubSeq(sorted, 1, at) \o <<x>> \o SubSeq(sorted, at + 1, Len(sorted))
RECURSIVE insertStrings(_, _)
insertStrings(sorted, s) ==
  IF Len(sorted) + Len(s) = Len(sorted) THEN sorted
  ELSE IF Len(s) = 1 THEN InsertSorted(sorted, searchSorted(sorted, s[1], 0, Len(sorted)), s[1])
  ELSE insertStrings(insertStrings(sorted, SubSeq(s, 1, Len(s) \div 2)), SubSeq(s, Len(s) \div 2 + 1, Len(s)))
SortStrings(s) == insertStrings(<<>>, s)

WarningCap == 200
\* One turn of the loop of addWarnings: st is [set, truncated].  Once the
\* set is full every later turn would find it full, so the return in the
\* loop leaves what the remaining turns would leave.
addWarning(st, w) ==
  IF Len(st.set) >= WarningCap THEN [st EXCEPT !.truncated = TRUE]
  ELSE IF \E i \in 1..Len(st.set) : st.set[i] = w THEN st
  ELSE [st EXCEPT !.set = Append(st.set, w)]
\* addWarnings(ws): the turns for the first half of ws, then those for the
\* rest; no turn changes a full set whose flag is raised.
RECURSIVE addWarnings(_, _)
addWarnings(st, ws) ==
  IF (st.truncated /\ Len(st.set) >= WarningCap) \/ ws = <<>> THEN st
  ELSE IF Len(ws) = 1 THEN addWarning(st, ws[1])
  ELSE addWarnings(addWarnings(st, SubSeq(ws, 1, Len(ws) \div 2)), SubSeq(ws, Len(ws) \div 2 + 1, Len(ws)))

\* One turn of the loop over the candidate files: r is the file's result.
matchStep(st, file, r) ==
  IF r.threw THEN [st EXCEPT !.threw = TRUE]
  ELSE [matches |-> IF r.ok THEN Append(st.matches, file) ELSE st.matches,
        warn |-> addWarnings(st.warn, r.warnings),
        threw |-> st.threw]

\* The loop over the candidate files: the matches, the warnings, and whether
\* an evaluation raised.
RECURSIVE matchLoop(_, _, _, _)
matchLoop(files, filter, schema, st) ==
  IF files = <<>> \/ st.threw THEN st
  ELSE matchLoop(Tail(files), filter, schema,
                 matchStep(st, Head(files), evaluateFilter(Head(files), filter, schema)))

\* The sort specifications: the request's sort list, else the view's order.
RECURSIVE requestSortSpecs(_)
requestSortSpecs(sort) ==
  IF sort = <<>> THEN <<>>
  ELSE (IF Trim(Head(sort).prop) = <<>> THEN <<>>
        ELSE <<[prop |-> Trim(Head(sort).prop),
                dir |-> IF ToLower(Head(sort).dir) = <<"d","e","s","c">> THEN "desc" ELSE "asc"]>>)
       \o requestSortSpecs(Tail(sort))
\* The specification of one entry str of view.order, trimmed.
viewSortSpec(str) ==
  IF StartsWith(str, <<"-">>)
  THEN (IF Len(str) = 1 THEN <<>> ELSE <<[prop |-> SliceFrom(str, 1), dir |-> "desc"]>>)
  ELSE (IF str = <<>> THEN <<>> ELSE <<[prop |-> str, dir |-> "asc"]>>)
RECURSIVE viewSortSpecs(_)
viewSortSpecs(order) ==
  IF order = <<>> THEN <<>>
  ELSE viewSortSpec(Trim(Head(order))) \o viewSortSpecs(Tail(order))
sortSpecs(view, body) ==
  IF Len(body.sort) > 0 THEN requestSortSpecs(body.sort)
  ELSE IF view.hasOrder THEN viewSortSpecs(view.order)
  ELSE <<>>

\* cmp of the values av and bv of one sort specification, with their numbers.
compareNums(av, bv, aNum, bNum) ==
  IF aNum.fin /\ bNum.fin
  THEN (IF aNum.n = bNum.n THEN 0 ELSE IF aNum.n < bNum.n THEN -1 ELSE 1)
  ELSE localeCompare(ToStr(Coalesce(av, Str(<<>>))), ToStr(Coalesce(bv, Str(<<>>))))
compareValues(av, bv) == compareNums(av, bv, ToNumber(av), ToNumber(bv))

\* The comparator of matches.sort: negative, zero or positive.
RECURSIVE compareFiles(_, _, _, _)
RECURSIVE compareRest(_, _, _, _, _)
compareRest(a, b, specs, schema, cmp) ==
  IF cmp # 0 THEN (IF Head(specs).dir = "asc" THEN cmp ELSE -cmp)
  ELSE compareFiles(a, b, Tail(specs), schema)
compareFiles(a, b, specs, schema) ==
  IF specs = <<>> THEN 0
  ELSE compareRest(a, b, specs, schema,
                   compareValues(getValueForRef(a, Head(specs).prop, schema, 0),
                                 getValueForRef(b, Head(specs).prop, schema, 0)))

\* Array.prototype.sort of the engine (V8) for an array of fewer than 64
\* elements: the run the array starts with (ascending, or strictly
\* descending and then reversed) is taken as sorted, and each element after
\* it is put in by a binary insertion.  With a comparator that orders the
\* elements consistently this is a stable sort.
\* The last index of the run that starts at index 1, idx being the next index.
RECURSIVE runEnd(_, _, _, _, _)
runEnd(files, idx, descending, specs, schema) ==
  IF idx > Len(files) THEN Len(files)
  ELSE IF descending = (compareFiles(files[idx], files[idx - 1], specs, schema) < 0)
  THEN runEnd(files, idx + 1, descending, specs, schema)
  ELSE idx - 1
\* The place (0-based) of pivot in sorted[left..right-1].
RECURSIVE insertionPoint(_, _, _, _, _, _)
insertionPoint(sorted, pivot, left, right, specs, schema) ==
  IF left >= right THEN left
  ELSE IF compareFiles(pivot, sorted[left + ((right - left) \div 2) + 1], specs, schema) < 0
  THEN insertionPoint(sorted, pivot, left, left + ((right - left) \div 2), specs, schema)
  ELSE insertionPoint(sorted, pivot, left + ((right - left) \div 2) + 1, right, specs, schema)
insertFile(sorted, x, specs, schema) ==
  InsertSorted(sorted, insertionPoint(sorted, x, 0, Len(sorted), specs, schema), x)
RECURSIVE insertFiles(_, _, _, _)
insertFiles(sorted, rest, specs, schema) ==
  IF rest = <<>> THEN sorted
  ELSE insertFiles(insertFile(sorted, Head(rest), specs, schema), Tail(rest), specs, schema)
sortFromRun(files, descending, n, specs, schema) ==
  insertFiles(IF descending THEN Reverse(SubSeq(files, 1, n)) ELSE SubSeq(files, 1, n),
              SubSeq(files, n + 1, Len(files)), specs, schema)
sortFromFirstPair(files, descending, specs, schema) ==
  sortFromRun(files, descending, runEnd(files, 3, descending, specs, schema), specs, schema)
sortFiles(files, specs, schema) ==
  IF Len(files) < 2 THEN files
  ELSE sortFromFirstPair(files, compareFiles(files[2], files[1], specs, schema) < 0, specs, schema)

sortThrows(files, specs, schema) ==
  \E i \in 1..Len(files), j \in 1..Len(specs) : getValueForRef(files[i], specs[j].prop, schema, 0) = Thrown

\* pageSlice whose pages start one row early from the second page on.
pageSliceOverlapping(list, page, limit) ==
  SubSeq(list, (page - 1) * limit - (IF page > 1 THEN 1 ELSE 0) + 1,
         Min((page - 1) * limit - (IF page > 1 THEN 1 ELSE 0) + limit, Len(list)))

\* list.slice(start, start + limit)
pageSlice(list, page, limit) ==
  LET start == (page - 1) * limit IN SubSeq(list, start + 1, Min(start + limit, Len(list)))

\* One row of a response.
queryRow(file, schema, withComputed) ==
  [path |-> file.path, name |-> FileBasename(file.path),
   props |-> buildRowProps(file, schema),
   hasComputed |-> withComputed,
   computed |-> IF withComputed THEN buildComputed(file, schema) ELSE <<>>]
rowThrows(row) ==
  \/ \E i \in 1..Len(row.props) : row.props[i].value = Thrown
  \/ \E i \in 1..Len(row.computed) : row.computed[i].value = Thrown

\* slice.map(...) and matches.map(...)
queryRows(files, schema, withComputed) == [i \in 1..Len(files) |-> queryRow(files[i], schema, withComputed)]
rowsThrow(rows) == \E i \in 1..Len(rows) : rowThrows(rows[i])

\* The loop of the handler over the candidate files.
scanFiles(files, schema, view, body) ==
  matchLoop(candidateFiles(files), combinedFilter(schema, view, body), schema,
            [matches |-> <<>>, warn |-> [set |-> <<>>, truncated |-> FALSE], threw |-> FALSE])

\* if (sortSpecs.length > 0) matches.sort(...)
sortedMatches(matches, order, schema) ==
  IF Len(order) > 0 THEN sortFiles(matches, order, schema) ELSE matches

\* Array.from(warningsSet).sort(localeCompare), with the truncation notice.
queryWarnings(warn) ==
  SortStrings(warn.set) \o (IF warn.truncated THEN <<<<"W","a","r","n","i","n","g","s"," ","t","r","o","n","q","u","é","s"," ","(","m","a","x"," ","2","0","0",")",".">>>> ELSE <<>>)

Snap(ts, rows) == [ts |-> ts, rows |-> rows, total |-> Len(rows)]

\* shouldEngine without the setting.
shouldEngineWhateverSetting(body, enabled) == body.evaluate

\* const shouldEngine = evaluate && this.settings.engineEnabled
shouldEngine(body, enabled) == body.evaluate /\ enabled

\* The handler raised: no response is sent and the cache is as it was.
QueryError(id, body, snaps) == [resp |-> [kind |-> "error", id |-> id, body |-> body], cache |-> snaps]

\* What the request has fixed before the files are read: q is
\* [id, body, limit, page, matched], matched the paths of the sorted matches.
QueryResponse(q, total, rows, source, warnings) ==
  [kind |-> "ok", id |-> q.id, body |-> q.body, total |-> total, page |-> q.page, rows |-> rows,
   evaluate |-> q.body.evaluate, source |-> source, warnings |-> warnings, limit |-> q.limit,
   matched |-> q.matched]

\* if (evaluate && snap): the slice of the snapshot's rows.
engineResponse(q, warnings, snap) ==
  QueryResponse(q, snap.total, pageSlice(snap.rows, q.page, q.limit), "engine", warnings)

\* populateSnapshot that keeps only the rows of the requested page.
populateSnapshotOfPage(q, snaps, warnings, snap) ==
  IF rowsThrow(snap.rows) THEN QueryError(q.id, q.body, snaps)
  ELSE [resp |-> engineResponse(q, warnings, Snap(snap.ts, pageSlice(snap.rows, q.page, q.limit))),
        cache |-> (ensureBaseExt(q.id) :> Snap(snap.ts, pageSlice(snap.rows, q.page, q.limit))) @@ snaps]

\* if (shouldEngine && !snap): the snapshot of the rows of every match.
populateSnapshot(q, snaps, warnings, snap) ==
  IF rowsThrow(snap.rows) THEN QueryError(q.id, q.body, snaps)
  ELSE [resp |-> engineResponse(q, warnings, snap), cache |-> (ensureBaseExt(q.id) :> snap) @@ snaps]

\* The handler from const evaluate = !!body?.evaluate on.
respond(q, enabled, snaps, now, schema, warnings, matches, rows) ==
  IF rowsThrow(rows) THEN QueryError(q.id, q.body, snaps)
  ELSE IF ~shouldEngine(q.body, enabled)
  THEN [resp |-> QueryResponse(q, Len(matches), rows, "fallback", warnings), cache |-> snaps]
  ELSE IF ensureBaseExt(q.id) \in DOMAIN snaps
  THEN [resp |-> engineResponse(q, warnings, snaps[ensureBaseExt(q.id)]), cache |-> snaps]
  ELSE populateSnapshot(q, snaps, warnings, Snap(now, queryRows(matches, schema, TRUE)))

\* The handler from const total = matches.length on.
paginate(id, body, limit, page, enabled, snaps, now, schema, warnings, matches) ==
  respond([id |-> id, body |-> body, limit |-> limit, page |-> page,
           matched |-> [i \in 1..Len(matches) |-> matches[i].path]],
          enabled, snaps, now, schema, warnings, matches,
          queryRows(pageSlice(matches, page, limit), schema, body.evaluate))

\* The handler from the sort of the matches on.
sortAndPaginate(id, body, limit, page, enabled, snaps, now, schema, scanned, order) ==
  IF scanned.threw \/ sortThrows(scanned.matches, order, schema) THEN QueryError(id, body, snaps)
  ELSE paginate(id, body, limit, page, enabled, snaps, now, schema,
                queryWarnings(scanned.warn), sortedMatches(scanned.matches, order, schema))

\* The handler from the choice of the view on.
queryView(files, enabled, snaps, now, id, body, schema, view) ==
  sortAndPaginate(id, body, effectiveLimit(view, body), effectivePage(body), enabled, snaps, now, schema,
                  scanFiles(files, schema, view, body), sortSpecs(view, body))

querySchema(files, enabled, snaps, now, id, body, schema) ==
  queryView(files, enabled, snaps, now, id, body, schema, selectView(schema, body))

\* The query handler from the reading of the base on: the response and the
\* cache it leaves.  body is [view, filter, sort, limit, page, evaluate].
queryBase(files, specs, enabled, snaps, now, id, body) ==
  IF ensureBaseExt(id) \notin DOMAIN specs THEN QueryError(id, body, snaps)
  ELSE querySchema(files, enabled, snaps, now, id, body,
                   extractSchema(ensureBaseExt(id), specs[ensureBaseExt(id)]))
(* ------------------------------------------------------------------ *)
(* The requests of the model                                           *)
(* ------------------------------------------------------------------ *)

Body(view, filter, sort, limit, page, evaluate) ==
  [view |-> view, filter |-> filter, sort |-> sort, limit |-> limit, page |-> page, evaluate |-> evaluate]
SortSpec(prop, dir) == [prop |-> prop, dir |-> dir]

\* Query requests without their page and evaluate flag: <<id, view, filter, sort, limit>>.
QueryTemplates ==
  {<<<<"b">>, Undef, FNull, <<>>, Num(2)>>,
   <<<<"b",".","b","a","s","e">>, Str(<<"t","o","p">>), FNull, <<>>, Undef>>,
   <<<<"b",".","b","a","s","e">>, Undef, FStr(<<"p","r","i","o","r","i","t","y"," ",">","="," ","2">>), <<SortSpec(<<"p","r","i","o","r","i","t","y">>, <<"D","E","S","C">>)>>, Num(1)>>,
   <<<<"b">>, Str(<<"n","o","p","e">>), FStr(<<"f","o","o"," ","b","a","r">>), <<>>, Undef>>,
   <<<<"m","i","s","s","i","n","g">>, Undef, FNull, <<>>, Undef>>}
FirstPages == {Undef, Num(2)}

\* The pages a client reads of one request.
MaxScanPages == 3

\* The rows the host's engine hands to the headless view on a data update.
hostRows(files, specs, path) ==
  queryRows(Reverse(candidateFiles(files)), extractSchema(path, specs[path]), TRUE)
\* controller?.config?.path ?? controller?.base?.path ?? controller?.file?.path ?? "":
\* the path of the base the view is opened on, "" for a controller without one.
ControllerPaths == {<<"b",".","b","a","s","e">>, <<>>}

Op(file, set, unset, expected) == [file |-> file, set |-> set, unset |-> unset, expected_mtime |-> expected]
KeyValue(key, value) == [key |-> key, value |-> value]
OpSetA == Op(<<"A",".","m","d">>, <<KeyValue(<<"p","r","i","o","r","i","t","y">>, Num(5))>>, <<>>, Undef)
OpStaleA == Op(<<"A",".","m","d">>, <<KeyValue(<<"s","t","a","t","u","s">>, Str(<<"o","p","e","n">>))>>, <<>>, Num(1))
OpFreshA == Op(<<"A",".","m","d">>, <<KeyValue(<<"s","t","a","t","u","s">>, Str(<<"o","p","e","n">>))>>, <<<<"p","r","i","o","r","i","t","y">>>>, Num(2))
OpZeroB == Op(<<"P","r","o","j","\\","B",".","m","d">>, <<KeyValue(<<"p","r","i","o","r","i","t","y">>, Num(1))>>, <<>>, Num(0))
OpNoFile == Op(<<>>, <<KeyValue(<<"p","r","i","o","r","i","t","y">>, Num(1))>>, <<>>, Undef)
OpMissing == Op(<<"N","o","p","e",".","m","d">>, <<>>, <<<<"s","t","a","t","u","s">>>>, Undef)
OpUnsetC == Op(<<"C",".","m","d">>, <<KeyValue(<<"f","l","a","g">>, Bool(FALSE))>>, <<<<"f","l","a","g">>, <<"s","t","a","t","u","s">>>>, Undef)
OpSetFormula == Op(<<"C",".","m","d">>, <<KeyValue(<<"f","o","r","m","u","l","a",".","l","a","b","e","l">>, Str(<<"x">>))>>, <<>>, Undef)
OpUnsetFile == Op(<<"A",".","m","d">>, <<KeyValue(<<"f","i","l","e",".","s","i","z","e">>, Num(0))>>, <<<<"f","i","l","e",".","n","a","m","e">>>>, Undef)
BatchPool ==
  {<<OpStaleA, OpSetA>>, <<OpSetA, OpFreshA>>, <<OpNoFile, OpUnsetC>>, <<OpMissing, OpZeroB>>,
   <<OpSetA, OpStaleA, OpUnsetC>>, <<OpZeroB, OpSetA>>, <<OpFreshA>>, <<>>,
   <<OpSetFormula>>, <<OpUnsetFile, OpSetFormula>>}

\* Date.now() and the modification times stay below MaxClock.
MaxClock == 5

(* ------------------------------------------------------------------ *)
(* The operations of the bridge (specification Spec)                   *)
(* ------------------------------------------------------------------ *)

Init ==
  /\ notes = <<NoteA, NoteB, NoteC, HostConfig, BaseFile>>
  /\ bases = (<<"b",".","b","a","s","e">> :> BaseSpecB)
  /\ engineEnabled = FALSE
  /\ headlessMounted = FALSE
  /\ cache = <<>>
  /\ clock = 2
  /\ resp = None
  /\ scan = None
  /\ ups = None
  /\ probe = None

\* setEngineEnabled that empties the cache when the engine is turned off.
setEngineEnabledClearing ==
  \E on \in BOOLEAN :
    /\ engineEnabled' = on
    /\ headlessMounted' = (headlessMounted \/ on)
    /\ cache' = IF on THEN cache ELSE <<>>
    /\ resp' = None
    /\ scan' = None
    /\ UNCHANGED <<notes, bases, clock, ups, probe>>

\* setEngineEnabled(on), with maybeRegisterHeadlessView.
setEngineEnabled ==
  \E on \in BOOLEAN :
    /\ engineEnabled' = on
    /\ headlessMounted' = (headlessMounted \/ on)
    /\ resp' = None
    /\ scan' = None
    /\ UNCHANGED <<notes, bases, cache, clock, ups, probe>>

\* The promise of registerHeadlessView is rejected.
registerHeadlessViewRejected ==
  /\ headlessMounted
  /\ headlessMounted' = FALSE
  /\ resp' = None
  /\ scan' = None
  /\ UNCHANGED <<notes, bases, engineEnabled, cache, clock, ups, probe>>

\* pushSnapshot without if (!this.settings.engineEnabled) return.
pushSnapshotWhateverSetting(paths) ==
  \E path \in paths, empty \in BOOLEAN :
    /\ headlessMounted
    /\ empty \/ path \in DOMAIN bases
    /\ cache' = (normBaseId(path) :> Snap(clock, IF empty THEN <<>> ELSE hostRows(notes, bases, path))) @@ cache
    /\ resp' = None
    /\ scan' = None
    /\ UNCHANGED <<notes, bases, engineEnabled, headlessMounted, clock, ups, probe>>

\* The host's engine has recomputed a base: the sync() of the headless
\* view of a controller on one of the paths.
pushSnapshot(paths) ==
  \E path \in paths, empty \in BOOLEAN :
    /\ headlessMounted
    /\ empty \/ path \in DOMAIN bases
    /\ cache' = IF engineEnabled
                THEN (normBaseId(path) :>
                        Snap(clock, IF empty THEN <<>> ELSE hostRows(notes, bases, path))) @@ cache
                ELSE cache
    /\ resp' = None
    /\ scan' = None
    /\ UNCHANGED <<notes, bases, engineEnabled, headlessMounted, clock, ups, probe>>

sync == pushSnapshot(ControllerPaths)

\* ensureEngineForBase, then the rest of the query handler.
handleQuery(id, body) ==
  \E out \in {queryBase(notes, bases, engineEnabled, cache, clock, normBaseId(id), body)} :
    /\ headlessMounted' =
         (headlessMounted \/ (engineEnabled /\ ensureBaseExt(normBaseId(id)) \notin DOMAIN cache))
    /\ resp' = out.resp
    /\ cache' = out.cache
    /\ UNCHANGED <<notes, bases, engineEnabled, clock, ups, probe>>

\* POST /bases/:id/query
Query ==
  \E t \in QueryTemplates, page \in FirstPages, evaluate \in BOOLEAN :
    /\ resp = None
    /\ handleQuery(t[1], Body(t[2], t[3], t[4], t[5], page, evaluate))
    /\ scan' = IF effectivePage(Body(t[2], t[3], t[4], t[5], page, evaluate)) = 1 /\ resp'.kind = "ok"
               THEN [id |-> t[1], body |-> Body(t[2], t[3], t[4], t[5], page, evaluate), pages |-> <<resp'>>]
               ELSE None

\* The client asks for the next page of the request it is reading.
QueryNextPage ==
  /\ scan # None
  /\ Len(scan.pages) < MaxScanPages
  /\ handleQuery(scan.id, [scan.body EXCEPT !.page = Num(Len(scan.pages) + 1)])
  /\ scan' = IF resp'.kind = "ok" THEN [scan EXCEPT !.pages = Append(@, resp')] ELSE None

\* The client is done with the response.
ResponseRead ==
  /\ resp # None
  /\ resp' = None
  /\ scan' = None
  /\ UNCHANGED <<notes, bases, engineEnabled, headlessMounted, cache, clock, ups, probe>>


(* ------------------------------------------------------------------ *)
(* Single requests drawn from pools (specification SpecRequest)        *)
(* ------------------------------------------------------------------ *)

\* The values of the sort key rank: a missing key, null, strings and numbers.
SortValues == {Undef, Null, Str(<<>>), Str(<<"-">>), Str(<<"b">>), Num(-1), Num(0), Num(2)}
SortNote(name, rank, grp) ==
  [path |-> name, size |-> 1, ctime |-> 1, mtime |-> 1,
   fm |-> IF rank = Undef THEN (<<"g","r","p">> :> Num(grp)) ELSE (<<"r","a","n","k">> :> rank) @@ (<<"g","r","p">> :> Num(grp)),
   tags |-> <<>>, links |-> <<>>]
SortPool ==
  {<<>>, <<SortSpec(<<"r","a","n","k">>, <<"a","s","c">>)>>, <<SortSpec(<<"r","a","n","k">>, <<"d","e","s","c">>)>>,
   <<SortSpec(<<"g","r","p">>, <<"a","s","c">>), SortSpec(<<"r","a","n","k">>, <<"a","s","c">>)>>}

\* POST /bases/b/query with a sort list, over a vault of three notes.
SortQuery ==
  /\ probe = None
  /\ UNCHANGED sysvars
  /\ \E r1 \in SortValues, r2 \in SortValues, r3 \in SortValues, g \in {1, 2}, sort \in SortPool :
       \E files \in {<<SortNote(<<"N","1",".","m","d">>, r1, 1), SortNote(<<"N","2",".","m","d">>, r2, 1), SortNote(<<"N","3",".","m","d">>, r3, g), BaseFile>>},
          body \in {Body(Undef, FNull, sort, Undef, Undef, FALSE)} :
         probe' = [kind |-> "sort", files |-> candidateFiles(files),
                   order |-> sortSpecs(selectView(SchemaB, body), body),
                   resp |-> queryBase(files, bases, FALSE, <<>>, clock, <<"b">>, body).resp]

\* The limit and page values of a request body, and the view it names.
LimitValues ==
  {Undef, Null, Num(0), Num(-3), Num(1), Num(2), Tenths(25), Tenths(-5), Num(500), Num(501), Num(1000),
   Str(<<"a","b","c">>), Str(<<"2">>), Str(<<>>), Bool(TRUE), Obj(0)}
PageValues == {Undef, Null, Num(0), Num(-1), Num(1), Num(2), Tenths(15), Num(1000000), Num(1000001), Str(<<"x">>)}
LimitViews == {Undef, Str(<<"a","l","l">>), Str(<<"t","o","p">>), Str(<<"n","o","p","e">>)}

\* POST /bases/b/query with a limit and a page.
LimitQuery ==
  /\ probe = None
  /\ UNCHANGED sysvars
  /\ \E limit \in LimitValues, page \in PageValues, view \in LimitViews :
       \E body \in {Body(view, FNull, <<>>, limit, page, FALSE)} :
         probe' = [kind |-> "limit", body |-> body, view |-> selectView(SchemaB, body),
                   resp |-> queryBase(notes, bases, FALSE, <<>>, clock, <<"b">>, body).resp]

\* The i-th of the statements that no rule of the grammar matches, and
\* {or: [...]} over the first n of them: n distinct warnings a note.
WarnStatement(i) ==
  <<"x", " ", Digits[(i \div 100) + 1], Digits[((i \div 10) % 10) + 1], Digits[(i % 10) + 1]>>
WarnFilter(n) == FOr([i \in 1..n |-> FStr(WarnStatement(i))])
WarningCounts == {0, 3, 199, 200, 201}

\* POST /bases/b/query with a filter that warns n times a note, over a
\* vault of one note and over the vault of three.
WarningQuery ==
  /\ probe = None
  /\ UNCHANGED sysvars
  /\ \E n \in WarningCounts, files \in {<<NoteA, BaseFile>>, notes} :
       \E body \in {Body(Undef, WarnFilter(n), <<>>, Undef, Undef, FALSE)} :
         probe' = [kind |-> "warn", count |-> n, files |-> candidateFiles(files),
                   emitted |-> filterResults(NoteA, <<WarnFilter(n)>>)[1].warnings,
                   resp |-> queryBase(files, bases, FALSE, <<>>, clock, <<"b">>, body).resp]

\* The filters that hold of every note: null (or absent), the empty
\* statement, a blank statement, { and: [] }, alone and nested.
TautologyPool ==
  {FNull, FStr(<<>>), FStr(<<" ", " ">>), FAnd(<<>>), FAnd(<<FNull, FStr(<<>>)>>), FAnd(<<FAnd(<<>>), FStr(<<" ">>)>>)}

\* evaluateFilter on such a filter, and POST /bases/b/query with it as the
\* request's filter.
TautologyQuery ==
  /\ probe = None
  /\ UNCHANGED sysvars
  /\ \E filter \in TautologyPool, view \in LimitViews, evaluate \in BOOLEAN, i \in 1..Len(notes) :
       \E body \in {Body(view, filter, <<>>, Undef, Undef, evaluate)} :
         probe' = [kind |-> "tautology", filter |-> filter, note |-> notes[i], body |-> body,
                   combined |-> combinedFilter(SchemaB, selectView(SchemaB, body), body),
                   res |-> evaluateFilter(notes[i], filter, SchemaB),
                   resp |-> queryBase(notes, bases, FALSE, <<>>, clock, <<"b">>, body).resp]
(* ------------------------------------------------------------------ *)
(* The upsert handler                                                  *)
(* ------------------------------------------------------------------ *)

\* vault.getAbstractFileByPath(path): the index of the file, 0 when absent.
fileIndex(files, path) ==
  IF \E i \in 1..Len(files) : files[i].path = path
  THEN CHOOSE i \in 1..Len(files) : files[i].path = path
  ELSE 0

\* One entry of the results list; code "" means no error.
Result(file, mtime, code, keys, unset) ==
  [file |-> file, mtime |-> mtime, code |-> code, keys |-> keys, unset |-> unset]

\* const expected = typeof op.expected_mtime === "number" ? op.expected_mtime : undefined;
\* if (expected && abstract.stat.mtime !== expected)
mtimeConflict(op, mtime) ==
  /\ op.expected_mtime.t = "num"
  /\ op.expected_mtime.n # 0
  /\ op.expected_mtime # Num(mtime)

\* What the handler holds at a suspension: the request, the operation i it
\* is at, the results so far, the vault as the request found it (before),
\* and for every result the operation it answers, the mtime its guard read
\* and whether its write was applied (seen).
Handler(kind, body, i, results, seen, before) ==
  [kind |-> kind, body |-> body, i |-> i, results |-> results, seen |-> seen, before |-> before]
Seen(op, mtime, wrote) == [op |-> op, mtime |-> mtime, wrote |-> wrote]

\* The loop of the handler from operation i up to its next suspension: it
\* stops at the frontmatter write of an operation that passed the guards
\* ("writing") or at the end of the batch ("done").
RECURSIVE runOperations(_, _)

\* failOperation without its break: the loop goes on whatever continueOnError is.
failOperationNoBreak(files, h, result, mtime) ==
  runOperations(files, [h EXCEPT !.i = h.i + 1, !.results = Append(h.results, result),
                                 !.seen = Append(h.seen, Seen(h.i, mtime, FALSE))])

\* results.push(result); if (!continueOnError) break; continue;
failOperation(files, h, result, mtime) ==
  IF h.body.continueOnError
  THEN runOperations(files, [h EXCEPT !.i = h.i + 1, !.results = Append(h.results, result),
                                      !.seen = Append(h.seen, Seen(h.i, mtime, FALSE))])
  ELSE [h EXCEPT !.kind = "done", !.results = Append(h.results, result),
                 !.seen = Append(h.seen, Seen(h.i, mtime, FALSE))]

\* The guards of one operation on the file at index idx (0 when absent).
guardOperation(files, h, op, filePath, idx) ==
  IF filePath = <<>> THEN failOperation(files, h, Result(<<>>, 0, "validation_error", <<>>, <<>>), 0)
  ELSE IF idx = 0 THEN failOperation(files, h, Result(filePath, 0, "not_found", <<>>, <<>>), 0)
  ELSE IF mtimeConflict(op, files[idx].mtime)
  THEN failOperation(files, h, Result(filePath, files[idx].mtime, "mtime_conflict", <<>>, <<>>), files[idx].mtime)
  ELSE [h EXCEPT !.kind = "writing"]

runOperations(files, h) ==
  IF h.i > Len(h.body.operations) THEN [h EXCEPT !.kind = "done"]
  ELSE guardOperation(files, h, h.body.operations[h.i], normBaseId(h.body.operations[h.i].file),
                      fileIndex(files, normBaseId(h.body.operations[h.i].file)))

\* The callback of processFrontMatter: every key of set is assigned, then
\* every key of unset is deleted.
RECURSIVE assignAll(_, _)
assignAll(fm, set) ==
  IF set = <<>> THEN fm
  ELSE assignAll((Head(set).key :> Head(set).value) @@ fm, Tail(set))
deleteAll(fm, unset) ==
  [k \in DOMAIN fm \ {unset[i] : i \in 1..Len(unset)} |-> fm[k]]
\* processFrontMatter that deletes the keys of unset before it assigns.
processFrontMatterUnsetFirst(fm, op) == assignAll(deleteAll(fm, op.unset), op.set)
processFrontMatter(fm, op) == deleteAll(assignAll(fm, op.set), op.unset)
changedKeys(op) == [i \in 1..Len(op.set) |-> op.set[i].key]

\* POST /bases/:id/upsert with a batch of the pool, up to the first
\* frontmatter write.
startUpsert(pool) ==
  \E operations \in pool, continueOnError \in BOOLEAN :
    /\ ups = None
    /\ clock + Len(operations) <= MaxClock
    /\ ups' = runOperations(notes, Handler("running", [operations |-> operations, continueOnError |-> continueOnError],
                                           1, <<>>, <<>>, notes))
    /\ resp' = None
    /\ scan' = None
    /\ UNCHANGED <<notes, bases, engineEnabled, headlessMounted, cache, clock, probe>>

UpsertStart == startUpsert(BatchPool)

\* The write of operation op on the file at idx is applied at time now.
writeApplied(files, idx, op, now) ==
  [files EXCEPT ![idx].fm = processFrontMatter(@, op), ![idx].mtime = now]

\* The awaited processFrontMatter of operation op on the file at idx is
\* fulfilled: the result is pushed and the loop goes on.  mtime is the
\* modification time the guard read.
writeFulfilled(h, op, idx, mtime, written) ==
  runOperations(written,
                [h EXCEPT !.i = h.i + 1,
                          !.results = Append(h.results, Result(written[idx].path, written[idx].mtime, "",
                                                               changedKeys(op), op.unset)),
                          !.seen = Append(h.seen, Seen(h.i, mtime, TRUE))])

\* The awaited processFrontMatter is rejected: catch (e).
writeRejected(files, h, idx) ==
  failOperation(files, h, Result(files[idx].path, files[idx].mtime, "write_error", <<>>, <<>>), files[idx].mtime)

\* The awaited processFrontMatter settles; the handler then runs on to its
\* next suspension.
UpsertWrite ==
  /\ ups.kind = "writing"
  /\ \E rejected \in BOOLEAN, idx \in {fileIndex(notes, normBaseId(ups.body.operations[ups.i].file))} :
       IF rejected
       THEN /\ UNCHANGED <<notes, clock>>
            /\ ups' = writeRejected(notes, ups, idx)
       ELSE /\ notes' = writeApplied(notes, idx, ups.body.operations[ups.i], clock + 1)
            /\ clock' = clock + 1
            /\ ups' = writeFulfilled(ups, ups.body.operations[ups.i], idx, notes[idx].mtime, notes')
  /\ resp' = None
  /\ scan' = None
  /\ UNCHANGED <<bases, engineEnabled, headlessMounted, cache, probe>>

\* const ok = results.every((r) => !r.error) with only the first result read.
upsertOkFirstOnly(results) == results = <<>> \/ results[1].code = ""

\* const ok = results.every((r) => !r.error)
upsertOk(results) == \A i \in 1..Len(results) : results[i].code = ""

\* res.json({ ok, results })
UpsertRespond ==
  /\ ups.kind = "done"
  /\ ups' = None
  /\ resp' = [kind |-> "upsert", ok |-> upsertOk(ups.results), results |-> ups.results,
              body |-> ups.body, seen |-> ups.seen, before |-> ups.before]
  /\ scan' = None
  /\ UNCHANGED <<notes, bases, engineEnabled, headlessMounted, cache, clock, probe>>

\* The frontmatter writes the upsert handler in flight may still make.
pendingWrites(h) == IF h = None THEN 0 ELSE Len(h.body.operations) - h.i + 1

(* ------------------------------------------------------------------ *)
(* Two upsert requests in flight (specification SpecRace)              *)
(* ------------------------------------------------------------------ *)

\* Requests of one operation on A.md; OpFreshA and OpGuardedA expect the
\* modification time the note starts with.
OpGuardedA == Op(<<"A",".","m","d">>, <<KeyValue(<<"p","r","i","o","r","i","t","y">>, Num(9))>>, <<>>, Num(2))
RacePool == {<<OpFreshA>>, <<OpGuardedA>>, <<OpSetA>>}

\* The handler of the other request, held in probe while it is in flight,
\* and its response: probe is [kind, h] with kind "handling" or "answered".
otherPending == IF probe.kind = "handling" THEN pendingWrites(probe.h) ELSE 0

\* POST /bases/:id/upsert, up to the first frontmatter write.
RaceUpsertStart ==
  /\ clock + 1 + otherPending <= MaxClock
  /\ startUpsert(RacePool)

\* POST /bases/:id/upsert of the other request, up to its first frontmatter write.
OtherUpsertStart ==
  \E operations \in RacePool, continueOnError \in BOOLEAN :
    /\ probe = None
    /\ clock + Len(operations) + pendingWrites(ups) <= MaxClock
    /\ probe' = [kind |-> "handling",
                 h |-> runOperations(notes, Handler("running", [operations |-> operations,
                                                                continueOnError |-> continueOnError],
                                                    1, <<>>, <<>>, notes))]
    /\ UNCHANGED sysvars

\* The awaited processFrontMatter of the other request settles; its handler
\* then runs on to its next suspension.
OtherUpsertWrite ==
  /\ probe.kind = "handling"
  /\ probe.h.kind = "writing"
  /\ \E rejected \in BOOLEAN, idx \in {fileIndex(notes, normBaseId(probe.h.body.operations[probe.h.i].file))} :
       IF rejected
       THEN /\ UNCHANGED <<notes, clock>>
            /\ probe' = [probe EXCEPT !.h = writeRejected(notes, probe.h, idx)]
       ELSE /\ notes' = writeApplied(notes, idx, probe.h.body.operations[probe.h.i], clock + 1)
            /\ clock' = clock + 1
            /\ probe' = [probe EXCEPT !.h = writeFulfilled(probe.h, probe.h.body.operations[probe.h.i], idx,
                                                           notes[idx].mtime, notes')]
  /\ UNCHANGED <<bases, engineEnabled, headlessMounted, cache, resp, scan, ups>>

\* res.json({ ok, results }) of the other request.
OtherUpsertRespond ==
  /\ probe.kind = "handling"
  /\ probe.h.kind = "done"
  /\ probe' = [probe EXCEPT !.kind = "answered"]
  /\ UNCHANGED sysvars

NextRace ==
  \/ RaceUpsertStart
  \/ UpsertWrite
  \/ UpsertRespond
  \/ OtherUpsertStart
  \/ OtherUpsertWrite
  \/ OtherUpsertRespond

SpecRace == Init /\ [][NextRace]_vars

(* ------------------------------------------------------------------ *)
(* The base-config handler                                             *)
(* ------------------------------------------------------------------ *)

\* The payloads of PUT /bases/:id/config: none, or the json of a spec.
BaseSpecFiltered == [BaseSpecB EXCEPT !.filters = FStr(<<"p","r","i","o","r","i","t","y">>)]
ConfigPayloads == {Undef, BaseSpecB, BaseSpecFiltered}

\* vault.modify(existing, nextYaml) or vault.create(path, nextYaml) at time now.
writeConfig(files, path, now) ==
  IF fileIndex(files, path) # 0
  THEN [files EXCEPT ![fileIndex(files, path)].mtime = now]
  ELSE Append(files, [path |-> path, size |-> 1, ctime |-> now, mtime |-> now,
                      fm |-> <<>>, tags |-> <<>>, links |-> <<>>])

\* PUT /bases/:id/config
putBaseConfig ==
  \E id \in {<<"b">>}, json \in ConfigPayloads, validateOnly \in BOOLEAN :
    /\ clock + pendingWrites(ups) < MaxClock
    /\ IF json = Undef \/ validateOnly
       THEN UNCHANGED <<notes, bases, clock>>
       ELSE /\ notes' = writeConfig(notes, ensureBaseExt(normBaseId(id)), clock + 1)
            /\ bases' = (ensureBaseExt(normBaseId(id)) :> json) @@ bases
            /\ clock' = clock + 1
    /\ resp' = [kind |-> "config", ok |-> (json # Undef), id |-> ensureBaseExt(normBaseId(id))]
    /\ scan' = None
    /\ UNCHANGED <<engineEnabled, headlessMounted, cache, ups, probe>>

(* ------------------------------------------------------------------ *)
(* The snapshot cache under every handler (specification SpecCache)    *)
(* ------------------------------------------------------------------ *)

\* Date.now() stays below MaxCacheClock here.
MaxCacheClock == 4

\* Query requests as in QueryTemplates: <<id, view, filter, sort, limit>>.
CacheTemplates ==
  {<<<<"b">>, Undef, FNull, <<>>, Num(2)>>,
   <<<<"b",".","b","a","s","e">>, Undef, FStr(<<"p","r","i","o","r","i","t","y"," ",">","="," ","2">>), <<SortSpec(<<"p","r","i","o","r","i","t","y">>, <<"D","E","S","C">>)>>, Num(1)>>}

\* POST /bases/:id/query
CacheQuery ==
  \E t \in CacheTemplates, evaluate \in BOOLEAN :
    /\ resp = None
    /\ handleQuery(t[1], Body(t[2], t[3], t[4], t[5], Undef, evaluate))
    /\ scan' = None

\* POST /bases/:id/upsert
CacheBatches == {<<OpSetA>>}
CacheUpsertStart == clock < MaxCacheClock /\ startUpsert(CacheBatches)

\* PUT /bases/:id/config
CachePutConfig == clock < MaxCacheClock /\ putBaseConfig

\* The sync() of the headless view of the base.
CacheSync == pushSnapshot({<<"b",".","b","a","s","e">>})

NextCache ==
  \/ setEngineEnabled
  \/ CacheSync
  \/ CacheQuery
  \/ ResponseRead
  \/ CacheUpsertStart
  \/ UpsertWrite
  \/ UpsertRespond
  \/ CachePutConfig

SpecCache == Init /\ [][NextCache]_vars

(* ------------------------------------------------------------------ *)
(* Evaluated queries that keep coming (specification FairSpecRefresh)  *)
(* ------------------------------------------------------------------ *)

\* POST /bases/:id/query with evaluate: true
EvaluatedQuery ==
  \E t \in CacheTemplates :
    /\ resp = None
    /\ handleQuery(t[1], Body(t[2], t[3], t[4], t[5], Undef, TRUE))
    /\ scan' = None

NextRefresh ==
  \/ setEngineEnabled
  \/ CacheSync
  \/ EvaluatedQuery
  \/ ResponseRead
  \/ CacheUpsertStart
  \/ UpsertWrite
  \/ UpsertRespond

\* Every response is read in the end and a started upsert handler runs to
\* its response; the live feed is free never to push.
FairSpecRefresh ==
  Init /\ [][NextRefresh]_vars
       /\ WF_vars(ResponseRead) /\ WF_vars(UpsertWrite) /\ WF_vars(UpsertRespond)

Next ==
  \/ setEngineEnabled
  \/ registerHeadlessViewRejected
  \/ sync
  \/ Query
  \/ QueryNextPage
  \/ ResponseRead
  \/ UpsertStart
  \/ UpsertWrite
  \/ UpsertRespond
  \/ putBaseConfig

Spec == Init /\ [][Next]_vars

\* The query side alone, over a vault that does not change.
NextQuery ==
  \/ setEngineEnabled
  \/ registerHeadlessViewRejected
  \/ sync
  \/ Query
  \/ QueryNextPage
  \/ ResponseRead

SpecQuery == Init /\ [][NextQuery]_vars

\* The upsert handler alone.
NextUpsert ==
  \/ UpsertStart
  \/ UpsertWrite
  \/ UpsertRespond

SpecUpsert == Init /\ [][NextUpsert]_vars

NextEval ==
  \/ ProbeStatement
  \/ ProbeUnrecognised
  \/ ProbeOr
  \/ ProbeAndFilter
  \/ ProbeAnd
  \/ ProbeCompare
  \/ ProbeTransitive
  \/ ProbeFormula
  \/ ProbeTruthiness
  \/ ProbeFormulaRef
  \/ ProbeHasLink
  \/ ProbeContainsLink
  \/ ProbeQuoted
  \/ ProbeIfThen

SpecEval == Init /\ [][NextEval]_vars

\* The query handler on single requests drawn from pools.
NextRequest ==
  \/ LimitQuery
  \/ WarningQuery
  \/ TautologyQuery
  \/ SortQuery

SpecRequest == Init /\ [][NextRequest]_vars

TypeOK == clock <= MaxClock

(* ------------------------------------------------------------------ *)
(* Properties of the query handler (specification SpecQuery)           *)
(* ------------------------------------------------------------------ *)

\* The files of some paths, and the rows the handler computes afresh for the
\* sorted matches of the request a response answers.
FilesAt(files, paths) == [i \in 1..Len(paths) |-> files[fileIndex(files, paths[i])]]
FreshRows(r) ==
  queryRows(FilesAt(notes, r.matched),
            extractSchema(ensureBaseExt(r.id), bases[ensureBaseExt(r.id)]), r.evaluate)
\* Rows from..to of a list, to at most its length.
RowsFromTo(list, from, to) == SubSeq(list, from, IF to < Len(list) THEN to ELSE Len(list))
PageOf(list, r) == RowsFromTo(list, (r.page - 1) * r.limit + 1, r.page * r.limit)

\* The response answers from the fresh rows, from the snapshot.
AnswersFresh(r, fresh) == r.total = Len(fresh) /\ r.rows = PageOf(fresh, r)
AnswersSnapshot(r, snaps) ==
  /\ ensureBaseExt(r.id) \in DOMAIN snaps
  /\ r.total = snaps[ensureBaseExt(r.id)].total
  /\ r.rows = PageOf(snaps[ensureBaseExt(r.id)].rows, r)

\* C2: a response is tagged "engine" exactly when the request's evaluate
\* flag is set and the engine is enabled, and then its rows and total are
\* those of the base's snapshot; in every other case it is tagged "fallback"
\* and its rows and total are the freshly computed ones, whatever the cache
\* holds.
C2_SourceTag ==
  resp.kind = "ok" =>
    /\ resp.source \in {"engine", "fallback"}
    /\ (resp.source = "engine") = (resp.body.evaluate /\ engineEnabled)
    /\ resp.source = "engine" => AnswersSnapshot(resp, cache)
    /\ resp.source = "fallback" => AnswersFresh(resp, FreshRows(resp))

\* An evaluate request answered afresh while the cache holds a snapshot of
\* its base whose rows are not the fresh ones.
C2_Witness ==
  /\ resp.kind = "ok"
  /\ resp.source = "fallback"
  /\ resp.body.evaluate
  /\ ensureBaseExt(resp.id) \in DOMAIN cache
  /\ resp.rows # PageOf(cache[ensureBaseExt(resp.id)].rows, resp)
  /\ resp.rows # <<>>

\* The rows of the pages from..to of a client's reading, and the number of
\* pages that hold total rows at limit rows a page.
RECURSIVE ConcatRows(_, _, _)
ConcatRows(pages, from, to) ==
  IF from > to THEN <<>> ELSE pages[from].rows \o ConcatRows(pages, from + 1, to)
PageCount(total, limit) == (total + limit - 1) \div limit

\* The pages read so far are the successive pages of the list full, and the
\* pages beyond the last are empty.
PagesReproduce(pages, full) ==
  /\ \A p \in 1..Len(pages) : pages[p].total = Len(full) /\ pages[p].page = p
  /\ Len(pages) >= PageCount(Len(full), pages[1].limit) =>
       /\ ConcatRows(pages, 1, PageCount(Len(full), pages[1].limit)) = full
       /\ \A p \in (PageCount(Len(full), pages[1].limit) + 1)..Len(pages) : pages[p].rows = <<>>

OpOf(r, k) == r.body.operations[r.seen[k].op]

\* C4: an operation whose numeric expected_mtime differs from the mtime of
\* its note is answered mtime_conflict and writes nothing, and when
\* continueOnError is false its result is the last one.
C4_StaleMtimeConflicts ==
  resp.kind = "upsert" =>
    \A k \in 1..Len(resp.results) :
      (/\ resp.results[k].code \notin {"validation_error", "not_found"}
       /\ OpOf(resp, k).expected_mtime.t = "num"
       /\ OpOf(resp, k).expected_mtime # Num(resp.seen[k].mtime)) =>
        /\ resp.results[k].code = "mtime_conflict"
        /\ ~resp.seen[k].wrote
        /\ ~resp.body.continueOnError => k = Len(resp.results)

\* The vault after the operations whose results carry no error have been
\* applied, in order, to the vault files.
RECURSIVE ApplySucceeded(_, _, _, _)
ApplySucceeded(files, operations, results, k) ==
  IF k > Len(results) THEN files
  ELSE ApplySucceeded(
         IF results[k].code = ""
         THEN [files EXCEPT ![fileIndex(files, normBaseId(operations[k].file))].fm =
                              processFrontMatter(@, operations[k])]
         ELSE files,
         operations, results, k + 1)
Frontmatters(files) == [i \in 1..Len(files) |-> files[i].fm]

\* C5: the results answer the operations in request order; with
\* continueOnError there is one result for every operation, without it the
\* results stop at the first one that carries an error; and the vault is
\* what the operations answered without an error make of it, so that no
\* operation after an abort is applied.
C5_SequentialBatch ==
  resp.kind = "upsert" =>
    /\ Len(resp.results) <= Len(resp.body.operations)
    /\ Len(resp.seen) = Len(resp.results)
    /\ \A k \in 1..Len(resp.results) :
         /\ resp.seen[k].op = k
         /\ resp.results[k].file =
              (IF resp.results[k].code = "validation_error" THEN <<>>
               ELSE normBaseId(resp.body.operations[k].file))
         /\ resp.results[k].code \in {"", "validation_error", "not_found", "mtime_conflict", "write_error"}
    /\ resp.body.continueOnError => Len(resp.results) = Len(resp.body.operations)
    /\ ~resp.body.continueOnError =>
         /\ \A k \in 1..(Len(resp.results) - 1) : resp.results[k].code = ""
         /\ Len(resp.results) < Len(resp.body.operations) => resp.results[Len(resp.results)].code # ""
    /\ Frontmatters(notes) =
         Frontmatters(ApplySucceeded(resp.before, resp.body.operations, resp.results, 1))

\* A batch of three operations aborted at its second: the first is applied,
\* the third is not.
C5_Witness ==
  /\ resp.kind = "upsert"
  /\ ~resp.body.continueOnError
  /\ Len(resp.body.operations) = 3
  /\ Len(resp.results) = 2
  /\ resp.results[1].code = ""
  /\ resp.results[2].code = "mtime_conflict"
  /\ Frontmatters(notes) # Frontmatters(resp.before)

\* C6: ok is true iff no result carries an error; an aborted batch answers
\* ok = false, and every operation that was applied has its result, without
\* an error, in the list.
C6_OkIffNoError ==
  resp.kind = "upsert" =>
    /\ resp.ok = (\A k \in 1..Len(resp.results) : resp.results[k].code = "")
    /\ (~resp.body.continueOnError /\ Len(resp.results) < Len(resp.body.operations)) => ~resp.ok
    /\ \A k \in 1..Len(resp.seen) :
         resp.seen[k].wrote =>
           /\ resp.results[k].code = ""
           /\ resp.results[k].keys = changedKeys(OpOf(resp, k))

\* A batch that went on after an error: ok is false and the result of the
\* operation that succeeded is in the list.
C6_Witness ==
  /\ resp.kind = "upsert"
  /\ ~resp.ok
  /\ resp.body.continueOnError
  /\ \E k \in 1..Len(resp.results) : resp.results[k].code # ""
  /\ \E k \in 1..Len(resp.results) : resp.results[k].code = "" /\ resp.seen[k].wrote

(* ------------------------------------------------------------------ *)
(* Properties of the interpreter (specification SpecEval)              *)
(* ------------------------------------------------------------------ *)

\* C1: an unrecognised statement, or an object of unknown shape, never
\* excludes the note: alone, directly under a negation (not x, !x, {not: x})
\* and as the child of a combinator it gives a pass and a warning.
C1_UnrecognisedNeverBlocks ==
  probe.kind = "unrec" => (probe.res.ok /\ probe.res.warnings # <<>>)

\* The warnings of the children from..to of the probed {or: [...]}, and the
\* first of its children that passes alone.
RECURSIVE ChildWarnings(_, _, _)
ChildWarnings(childRes, from, to) ==
  IF from > to THEN <<>> ELSE childRes[from].warnings \o ChildWarnings(childRes, from + 1, to)
PassingChildren(childRes) == {i \in 1..Len(childRes) : childRes[i].ok}
FirstPassingChild(childRes) == CHOOSE i \in PassingChildren(childRes) : \A j \in PassingChildren(childRes) : i <= j

C8_AndIsConjunction ==
  probe.kind = "and" =>
    /\ probe.res.ok = (probe.resA.ok /\ probe.resB.ok)
    /\ (~probe.resA.ok => probe.res.warnings = probe.resA.warnings)

\* "a and b" where a fails and b alone would warn.
C8_Witness ==
  /\ probe.kind = "and"
  /\ ~probe.resA.ok
  /\ probe.resB.warnings # <<>>
  /\ ~probe.res.ok

\* C9: when x resolves to a number and c is a numeric literal, exactly one
\* of "x > c" and "x <= c" passes, likewise "<" and ">=", "==" and "!="
\* ("=" is "=="); and x > y and y > c give x > c.
C9_ComparisonInversion ==
  /\ (probe.kind = "cmp" /\ probe.left.t = "num") =>
       /\ probe.ok[1] # probe.ok[2]
       /\ probe.ok[3] # probe.ok[4]
       /\ probe.ok[5] # probe.ok[6]
       /\ probe.ok[7] = probe.ok[5]
  /\ probe.kind = "trans" => ((probe.xy /\ probe.yc) => probe.xc)

\* A comparison of a number with a literal equal to it.
C9_Witness ==
  /\ probe.kind = "cmp"
  /\ probe.left.t = "num"
  /\ probe.ok[5]
  /\ probe.ok[2]
  /\ ~probe.ok[1]

\* C10: when the condition of if(c, t, e) resolves to 0, the formula gives
\* the value of its else expression ("none" for if(priority, 'has-priority', 'none')).
C10_IfZeroTakesElse ==
  (/\ probe.kind = "formula"
   /\ ifMatch(Trim(probe.expr))
   /\ Len(ifArgs(Trim(probe.expr))) >= 3
   /\ getValueForRef(probe.note, ifArgs(Trim(probe.expr))[1], SchemaB, 0) = Num(0)) =>
    probe.res = evalFormulaExpression(
                  probe.note,
                  Join(SubSeq(ifArgs(Trim(probe.expr)), 3, Len(ifArgs(Trim(probe.expr)))), <<",">>),
                  SchemaB, 0)


\* C11: the bare identifier k passes exactly when if(k, t, e) takes its then
\* branch, and exactly when k resolves to true, a string that is not blank,
\* a number other than 0, a non-empty array or a non-empty object; it gives
\* ok = false for undefined, null, false, 0, "", [] and {}.
C11_SharedTruthiness ==
  probe.kind = "truthy" =>
    /\ probe.bare.ok = (probe.cond = Str(probe.note.path))
    /\ probe.bare.ok =
         (\/ probe.value = Bool(TRUE)
          \/ (probe.value.t = "str" /\ Trim(probe.value.s) # <<>>)
          \/ (probe.value.t = "num" /\ probe.value.n # 0)
          \/ (probe.value.t = "arr" /\ probe.value.a # <<>>)
          \/ (probe.value.t = "obj" /\ probe.value.n > 0))

\* C12: resolving formula.<key> returns a value or undefined and never
\* raises, for every base, those whose formulas refer to themselves or to
\* one another in a cycle included; likewise the props and the computed
\* values of a row.
C12_ResolverNeverRaises ==
  probe.kind = "ref" =>
    /\ probe.res # Thrown
    /\ \A i \in 1..Len(probe.props) : probe.props[i].value # Thrown
    /\ \A i \in 1..Len(probe.computed) : probe.computed[i].value # Thrown

(* ------------------------------------------------------------------ *)
(* Properties of single requests (specification SpecRequest)          *)
(* ------------------------------------------------------------------ *)

\* The place of the note of some path among the rows of a response.
RowOf(rows, path) == CHOOSE k \in 1..Len(rows) : rows[k].path = path

\* C13: two matching notes that compare equal on every sort key are in the
\* response in their enumeration order, and without a sort specification
\* the rows are in enumeration order.
C13_SortStable ==
  probe.kind = "sort" =>
    /\ probe.resp.kind = "ok"
    /\ Len(probe.resp.rows) = Len(probe.files)
    /\ probe.order = <<>> =>
         \A i \in 1..Len(probe.files) : probe.resp.rows[i].path = probe.files[i].path
    /\ \A i \in 1..Len(probe.files), j \in 1..Len(probe.files) :
         (i < j /\ compareFiles(probe.files[i], probe.files[j], probe.order, SchemaB) = 0) =>
           RowOf(probe.resp.rows, probe.files[i].path) < RowOf(probe.resp.rows, probe.files[j].path)

\* Math.trunc of a number in tenths, between two bounds.
TruncatedBetween(tenths, lo, hi) ==
  IF tenths <= 10 * lo THEN lo
  ELSE IF tenths >= 10 * hi THEN hi
  ELSE tenths \div 10
\* The first of some values that is neither undefined nor null, truncated
\* and clamped, the default when it does not convert to a finite number.
Resolved(values, default, lo, hi) ==
  LET given == {i \in 1..Len(values) : values[i].t \notin {"undef", "null"}}
      first == CHOOSE i \in given : \A j \in given : i <= j
  IN IF given = {} THEN default
     ELSE IF ~ToNumber(values[first]).fin THEN default
     ELSE TruncatedBetween(ToNumber(values[first]).n, lo, hi)

TruncationNotice == <<"W","a","r","n","i","n","g","s"," ","t","r","o","n","q","u","é","s"," ","(","m","a","x"," ","2","0","0",")",".">>
FilterWarnings(warnings) ==
  IF warnings # <<>> /\ warnings[Len(warnings)] = TruncationNotice
  THEN SubSeq(warnings, 1, Len(warnings) - 1) ELSE warnings

\* C15: the warnings of a response are distinct warnings of the filter, at
\* most 200 of them, and the truncation notice follows them exactly when
\* some distinct warning of the filter is not among them.  (The probed
\* filter gives every note the same warnings, probe.emitted.)
C15_WarningsCapped ==
  probe.kind = "warn" =>
    /\ probe.resp.kind = "ok"
    /\ Len(FilterWarnings(probe.resp.warnings)) <= 200
    /\ \A i \in 1..Len(FilterWarnings(probe.resp.warnings)), j \in 1..Len(FilterWarnings(probe.resp.warnings)) :
         i # j => probe.resp.warnings[i] # probe.resp.warnings[j]
    /\ Range(FilterWarnings(probe.resp.warnings)) \subseteq Range(probe.emitted)
    /\ (FilterWarnings(probe.resp.warnings) # probe.resp.warnings)
         = (Range(probe.emitted) # Range(FilterWarnings(probe.resp.warnings)))

(* ------------------------------------------------------------------ *)
(* Properties of the link predicates (specification SpecEval)          *)
(* ------------------------------------------------------------------ *)

\* The name a link text stands for: without its wiki brackets, without the
\* display text after "|", without the heading after "#", without ".md".
Unbracketed(s) ==
  IF StartsWith(s, <<"[","[">>) /\ EndsWith(s, <<"]","]">>) /\ Len(s) >= 4 THEN Slice(s, 2, Len(s) - 2) ELSE s
LinkName(s) == Trim(StripMdSuffix(BeforeFirst(BeforeFirst(Unbracketed(Trim(s)), <<"|">>), <<"#">>)))

\* C16: file.hasLink(<arg>) passes iff the name of the argument is the
\* name of one of the note's outbound links; so for a note that links to
\* Note each of 'Note', 'Note.md', '[[Note]]', '[[Note|Alias]]' and
\* 'Note#Heading' passes.
C16_HasLinkNormalises ==
  probe.kind = "haslink" =>
    /\ ~probe.res.threw
    /\ probe.res.ok =
         (/\ LinkName(stripQuotes(probe.arg)) # <<>>
          /\ \E i \in 1..Len(probe.note.links) :
               LinkName(probe.note.links[i]) = LinkName(stripQuotes(probe.arg)))

\* C17: <prop>.contains(link(<target>)) and the list(<prop>) form pass iff
\* the name of some element of the property, taken as a collection, is the
\* name of the target; so dans: "[[Atlas/Maps]]" and dans: ["Atlas/Maps.md"]
\* pass dans.contains(link("Atlas/Maps")).
C17_ContainsLinkNormalises ==
  probe.kind = "contains" =>
    /\ ~probe.res.threw
    /\ probe.res.ok =
         (\E i \in 1..Len(AsArray(probe.value)) :
            LinkName(ToStr(AsArray(probe.value)[i])) = LinkName(stripQuotes(probe.target)))

(* ------------------------------------------------------------------ *)
(* Properties of the keys an upsert writes (specification SpecUpsert)  *)
(* ------------------------------------------------------------------ *)

\* A key of the computed or of the file-level properties.
ReservedKey(key) == StartsWith(key, <<"f","o","r","m","u","l","a",".">>) \/ StartsWith(key, <<"f","i","l","e",".">>)
NamesReservedKey(op) ==
  \/ \E i \in 1..Len(op.set) : ReservedKey(op.set[i].key)
  \/ \E i \in 1..Len(op.unset) : ReservedKey(op.unset[i])

\* C18: an operation whose set or unset names a key prefixed formula. or
\* file. is answered with an error and writes nothing.
C18_ReservedKeysRefused ==
  resp.kind = "upsert" =>
    \A k \in 1..Len(resp.results) :
      NamesReservedKey(OpOf(resp, k)) => (resp.results[k].code # "" /\ ~resp.seen[k].wrote)

(* ------------------------------------------------------------------ *)
(* Properties of the logical split (specification SpecEval)            *)
(* ------------------------------------------------------------------ *)

\* The comparison of the title with the literal, as strings.
TitleIs(p) == IF p.op = <<"!","=">> THEN p.note.fm[<<"t","i","t","l","e">>].s # p.literal ELSE p.note.fm[<<"t","i","t","l","e">>].s = p.literal

\* C19: a comparison with a quoted literal that holds and, &&, or, || is
\* one comparison with the literal as a string, alone and as a part of a
\* conjunction or disjunction written outside the quotes; and on the note
\* {status: "done", priority: 3} the filter status = 'done' and priority >= 2
\* passes without a warning.
C19_QuoteAwareSplit ==
  /\ probe.kind = "quoted" =>
       /\ ~probe.res.threw
       /\ probe.res.warnings = <<>>
       /\ probe.res.ok =
            (CASE probe.tail = <<>> -> TitleIs(probe)
               [] probe.tail = <<" ","a","n","d"," ","f","l","a","g">> -> TitleIs(probe)
               [] probe.tail = <<" ","&","&"," ","m","i","s","s","i","n","g">> -> FALSE
               [] probe.tail = <<" ","o","r"," ","m","i","s","s","i","n","g">> -> TitleIs(probe)
               [] OTHER -> TRUE)
  /\ (probe.kind = "stmt" /\ probe.note = NoteA /\ probe.stmt = <<"s","t","a","t","u","s"," ","="," ","'","d","o","n","e","'"," ","a","n","d"," ","p","r","i","o","r","i","t","y"," ",">","="," ","2">>) =>
       probe.res = R(TRUE, <<>>, FALSE)

\* title == 'cats and dogs' on a note whose title is cats and dogs.
C19_Witness ==
  /\ probe.kind = "quoted"
  /\ probe.literal = <<"c","a","t","s"," ","a","n","d"," ","d","o","g","s">>
  /\ probe.note.fm[<<"t","i","t","l","e">>] = Str(<<"c","a","t","s"," ","a","n","d"," ","d","o","g","s">>)
  /\ probe.op = <<"=","=">>
  /\ probe.tail = <<>>
  /\ probe.res.ok

\* The filter is one of the always-true filters: null, an empty or blank
\* statement, or { and: [...] } of such filters.
RECURSIVE AlwaysTrue(_)
AlwaysTrue(filter) ==
  \/ filter.k = "null"
  \/ (filter.k = "str" /\ Trim(filter.s) = <<>>)
  \/ (filter.k = "and" /\ \A i \in 1..Len(filter.c) : AlwaysTrue(filter.c[i]))

\* C20: an always-true filter passes every note without a warning, and a
\* query whose combined filter is empty matches every candidate note.
C20_EmptyFilterMatchesAll ==
  probe.kind = "tautology" =>
    /\ AlwaysTrue(probe.filter) => probe.res = R(TRUE, <<>>, FALSE)
    /\ AlwaysTrue(probe.combined) =>
         /\ probe.resp.kind = "ok"
         /\ probe.resp.warnings = <<>>
         /\ probe.resp.total = Len(candidateFiles(notes))
         /\ probe.resp.matched = [i \in 1..Len(candidateFiles(notes)) |-> candidateFiles(notes)[i].path]

\* A query with the filter { and: [] } under a view without filters: the
\* three candidate notes are matched.
C20_Witness ==
  /\ probe.kind = "tautology"
  /\ probe.filter = FAnd(<<>>)
  /\ probe.combined = FAnd(<<FAnd(<<>>)>>)
  /\ probe.res.ok
  /\ probe.resp.kind = "ok"
  /\ probe.resp.total = 3
  /\ Len(probe.resp.rows) = 3

\* C21: every key of the snapshot cache is a canonical base identifier, a
\* normalised path that ends in .base.
C21_CacheKeysCanonical ==
  \A key \in DOMAIN cache : key = ensureBaseExt(key)

(* ------------------------------------------------------------------ *)
(* Properties of the snapshot cache (specification SpecCache)          *)
(* ------------------------------------------------------------------ *)

\* The snapshot under the key is new, or another one than before the step.
Replaced(key) == key \notin DOMAIN cache \/ cache'[key] # cache[key]

\* C22: no step removes a key of the snapshot cache, and a snapshot that a
\* step stores or replaces is a whole new one, stamped with the time of the
\* step and with total the number of its rows, stored by a push of the live
\* feed or by the lazy population of a query while the engine is enabled.
C22_NeverEvicts ==
  [][/\ DOMAIN cache \subseteq DOMAIN cache'
     /\ \A key \in DOMAIN cache' :
          Replaced(key) =>
            /\ engineEnabled
            /\ cache'[key].ts = clock
            /\ cache'[key].total = Len(cache'[key].rows)
            /\ \/ headlessMounted /\ resp' = None
               \/ key \notin DOMAIN cache /\ resp'.kind = "ok" /\ resp'.source = "engine"]_vars

\* A snapshot stored at time 2 is still there after the engine was turned
\* off, a note was upserted and the base's config was rewritten.
C22_Witness ==
  /\ <<"b",".","b","a","s","e">> \in DOMAIN cache
  /\ cache[<<"b",".","b","a","s","e">>].ts = 2
  /\ cache[<<"b",".","b","a","s","e">>].total = Len(cache[<<"b",".","b","a","s","e">>].rows)
  /\ cache[<<"b",".","b","a","s","e">>].rows # <<>>
  /\ ~engineEnabled
  /\ notes[1].fm[<<"p","r","i","o","r","i","t","y">>] = Num(5)
  /\ bases[<<"b",".","b","a","s","e">>] = BaseSpecFiltered

\* C24: when the condition of if(cond, then, else) is truthy, the formula
\* gives the value of the then branch evaluated as an expression.
C24_ThenBranchEvaluated ==
  (probe.kind = "ifthen" /\ Truthy(probe.condVal)) => probe.res = probe.direct

\* The candidate notes that pass the combined filter of the request that
\* response r answers, as paths.
SchemaOf(r) == extractSchema(ensureBaseExt(r.id), bases[ensureBaseExt(r.id)])
PassingPaths(r) ==
  {c.path : c \in {d \in Range(candidateFiles(notes)) :
                     evaluateFilter(d, combinedFilter(SchemaOf(r), selectView(SchemaOf(r), r.body), r.body),
                                    SchemaOf(r)).ok}}
RowPaths(rows) == {rows[i].path : i \in 1..Len(rows)}

\* The snapshot is the row, with props and computed, of every sorted match
\* of the request that response r answers.
SnapshotOfMatches(snap, r) ==
  /\ snap.rows = queryRows(FilesAt(notes, r.matched), SchemaOf(r), TRUE)
  /\ snap.total = Len(r.matched)
  /\ RowPaths(snap.rows) = PassingPaths(r)
  /\ Len(snap.rows) = Cardinality(PassingPaths(r))

\* C25: an evaluated query in engine mode that finds no snapshot of its base
\* stores one made of a row for every match of the query, whatever its page
\* and limit, and answers with that snapshot's total.
C25_LazySnapshotHoldsEveryMatch ==
  [][(/\ resp'.kind = "ok"
      /\ resp'.source = "engine"
      /\ ensureBaseExt(resp'.id) \notin DOMAIN cache) =>
       /\ ensureBaseExt(resp'.id) \in DOMAIN cache'
       /\ SnapshotOfMatches(cache'[ensureBaseExt(resp'.id)], resp')
       /\ resp'.total = Len(resp'.matched)]_vars

\* Page 2 at two rows a page of a query that matches three notes: the
\* response holds one row, the snapshot the three rows of the matches.
C25_Witness ==
  /\ resp.kind = "ok"
  /\ resp.source = "engine"
  /\ resp.page = 2
  /\ resp.limit = 2
  /\ Len(resp.rows) = 1
  /\ Len(resp.matched) = 3
  /\ SnapshotOfMatches(cache[ensureBaseExt(resp.id)], resp)
  /\ cache[ensureBaseExt(resp.id)].rows[1].path = <<"A",".","m","d">>

\* The rows are in the order of the sort specification of the request that
\* response r answers.
RowsOrdered(rows, r) ==
  \A i \in 1..(Len(rows) - 1) :
    compareFiles(notes[fileIndex(notes, rows[i].path)], notes[fileIndex(notes, rows[i + 1].path)],
                 sortSpecs(selectView(SchemaOf(r), r.body), r.body), SchemaOf(r)) <= 0

\* C26: the rows of a response are candidate notes that pass the combined
\* filter of its request, in the order of the request's sort, and its total
\* is the number of candidate notes that pass the combined filter.
C26_ResponseAnswersRequest ==
  resp.kind = "ok" =>
    /\ RowPaths(resp.rows) \subseteq PassingPaths(resp)
    /\ RowsOrdered(resp.rows, resp)
    /\ resp.total = Cardinality(PassingPaths(resp))

(* ------------------------------------------------------------------ *)
(* Properties of concurrent upserts (specification SpecRace)           *)
(* ------------------------------------------------------------------ *)

\* The one operation of a request of RacePool, and whether it was applied.
GuardedAlike(a, b) ==
  /\ normBaseId(a.file) = normBaseId(b.file)
  /\ a.expected_mtime.t = "num"
  /\ a.expected_mtime.n # 0
  /\ a.expected_mtime = b.expected_mtime
AppliedFirst(results) == results # <<>> /\ results[1].code = ""

\* C27: of two answered upsert requests that guard the same note with the
\* same expected_mtime, at most one was applied.
C27_GuardPreventsLostUpdate ==
  (/\ resp.kind = "upsert"
   /\ probe.kind = "answered"
   /\ GuardedAlike(resp.body.operations[1], probe.h.body.operations[1])) =>
    ~(AppliedFirst(resp.results) /\ AppliedFirst(probe.h.results))

\* C28: a step taken while the engine is disabled, and the step that
\* disables it, leave the snapshot cache as it was.
C28_DisabledEngineLeavesCache ==
  [][(~engineEnabled \/ ~engineEnabled') => cache' = cache]_vars

\* With the engine disabled, the headless view mounted and a snapshot in the
\* cache, an evaluated query was answered after a note was upserted: the
\* snapshot is still the one stored at time 2.
C28_Witness ==
  /\ ~engineEnabled
  /\ headlessMounted
  /\ <<"b",".","b","a","s","e">> \in DOMAIN cache
  /\ cache[<<"b",".","b","a","s","e">>].ts = 2
  /\ clock > 2
  /\ notes[1].fm[<<"p","r","i","o","r","i","t","y">>] = Num(5)
  /\ resp.kind = "ok"
  /\ resp.body.evaluate
  /\ resp.source = "fallback"

\* The comparator of the sort on files i and j of a sort probe.
ProbeCmp(i, j) == compareFiles(probe.files[i], probe.files[j], probe.order, SchemaB)
Sign(n) == IF n < 0 THEN -1 ELSE IF n > 0 THEN 1 ELSE 0
RowFile(k) == probe.files[CHOOSE i \in 1..Len(probe.files) : probe.files[i].path = probe.resp.rows[k].path]

\* The comparator is antisymmetric, is transitive, and puts every adjacent
\* pair of the sorted rows in non-decreasing order.
CmpAntisymmetric ==
  \A i \in 1..Len(probe.files), j \in 1..Len(probe.files) : Sign(ProbeCmp(i, j)) = -Sign(ProbeCmp(j, i))
CmpTransitive ==
  \A i \in 1..Len(probe.files), j \in 1..Len(probe.files), k \in 1..Len(probe.files) :
    (ProbeCmp(i, j) <= 0 /\ ProbeCmp(j, k) <= 0) => ProbeCmp(i, k) <= 0
CmpNoCycle ==
  \A i \in 1..Len(probe.files), j \in 1..Len(probe.files), k \in 1..Len(probe.files) :
    ~(ProbeCmp(i, j) < 0 /\ ProbeCmp(j, k) < 0 /\ ProbeCmp(k, i) < 0)
AdjacentOrdered ==
  \A k \in 1..(Len(probe.resp.rows) - 1) :
    compareFiles(RowFile(k), RowFile(k + 1), probe.order, SchemaB) <= 0

\* C29: over notes whose sort keys mix numbers, numeric strings and other
\* strings, the comparator of the sort is antisymmetric and transitive, has
\* no cycle, and the sorted rows are pairwise in non-decreasing order.
C29_ComparatorConsistent ==
  (probe.kind = "sort" /\ probe.resp.kind = "ok") =>
    /\ CmpAntisymmetric
    /\ CmpTransitive
    /\ CmpNoCycle
    /\ AdjacentOrdered

(* ------------------------------------------------------------------ *)
(* The frame of an upsert operation (specification SpecUpsert)         *)
(* ------------------------------------------------------------------ *)

\* What operation op makes of a frontmatter: the keys of unset are absent,
\* the other keys of set hold their values, every other key is as before.
UnsetKeys(op) == {op.unset[i] : i \in 1..Len(op.unset)}
SetKeys(op) == {op.set[i].key : i \in 1..Len(op.set)}
OperationEffect(op, before, after) ==
  /\ \A key \in UnsetKeys(op) : key \notin DOMAIN after
  /\ \A i \in 1..Len(op.set) :
       op.set[i].key \notin UnsetKeys(op) =>
         (op.set[i].key \in DOMAIN after /\ after[op.set[i].key] = op.set[i].value)
  /\ \A key \in (DOMAIN before \cup DOMAIN after) \ (UnsetKeys(op) \cup SetKeys(op)) :
       key \in DOMAIN before /\ key \in DOMAIN after /\ after[key] = before[key]

\* The step changes the file at idx alone, and of it the frontmatter and
\* the modification time alone.
OnlyFileChanged(idx) ==
  /\ Len(notes') = Len(notes)
  /\ \A j \in 1..Len(notes) : j # idx => notes'[j] = notes[j]
  /\ [notes'[idx] EXCEPT !.fm = notes[idx].fm, !.mtime = notes[idx].mtime] = notes[idx]

\* C30: the step that applies an operation changes the frontmatter of its
\* note as the operation says and nothing else; a step that answers an
\* operation with an error, and every other step, leaves every note as it
\* was, what earlier operations of the batch wrote included.
C30_UpsertChangesOnlyWhatItNames ==
  [][IF ups.kind = "writing" /\ Len(ups'.seen) >= ups.i /\ ups'.seen[ups.i].wrote
     THEN /\ ups'.results[ups.i].code = ""
          /\ OnlyFileChanged(fileIndex(notes, normBaseId(ups.body.operations[ups.i].file)))
          /\ OperationEffect(ups.body.operations[ups.i],
                             notes[fileIndex(notes, normBaseId(ups.body.operations[ups.i].file))].fm,
                             notes'[fileIndex(notes, normBaseId(ups.body.operations[ups.i].file))].fm)
     ELSE notes' = notes]_vars

\* A batch whose first operation was refused and whose second, which names
\* flag in set and in unset, was applied to C.md: flag and status are gone,
\* the other keys are as they were.
C30_Witness ==
  /\ resp.kind = "upsert"
  /\ Len(resp.results) = 2
  /\ resp.results[1].code = "validation_error"
  /\ resp.results[2].code = ""
  /\ resp.body.operations[2] = OpUnsetC
  /\ DOMAIN notes[3].fm = DOMAIN NoteC.fm \ {<<"f","l","a","g">>, <<"s","t","a","t","u","s">>}
  /\ \A key \in DOMAIN notes[3].fm : notes[3].fm[key] = NoteC.fm[key]
  /\ notes[1] = NoteA

(* ------------------------------------------------------------------ *)
(* Refresh of stale snapshots (specification FairSpecRefresh)          *)
(* ------------------------------------------------------------------ *)

\* The row shows the value of the property, and the rows show A.md with the
\* priority the upsert of OpSetA gives it.
RowShows(row, key, value) == \E i \in 1..Len(row.props) : row.props[i].key = key /\ row.props[i].value = value
ShowChange(rows) ==
  \E i \in 1..Len(rows) : rows[i].path = <<"A",".","m","d">> /\ RowShows(rows[i], <<"p","r","i","o","r","i","t","y">>, Num(5))

\* A.md has been upserted while the snapshot of the base holds its row with
\* the former priority.
StaleSnapshot ==
  /\ notes[1].fm[<<"p","r","i","o","r","i","t","y">>] = Num(5)
  /\ <<"b",".","b","a","s","e">> \in DOMAIN cache
  /\ \E i \in 1..Len(cache[<<"b",".","b","a","s","e">>].rows) : cache[<<"b",".","b","a","s","e">>].rows[i].path = <<"A",".","m","d">>
  /\ ~ShowChange(cache[<<"b",".","b","a","s","e">>].rows)
RefreshedResponse ==
  /\ resp.kind = "ok"
  /\ resp.body.evaluate
  /\ ShowChange(resp.rows)

\* An evaluated query is answered with a page that holds the row of A.md.
EvaluatedAnswer ==
  /\ resp.kind = "ok"
  /\ resp.body.evaluate
  /\ \E i \in 1..Len(resp.rows) : resp.rows[i].path = <<"A",".","m","d">>

\* C23: when evaluated queries keep being answered with the row of the
\* changed note, then once the note has changed under a snapshot of the
\* base, and while the engine stays enabled, some later evaluated query
\* answers with rows that show the change, whether or not the live feed
\* pushes.
C23_StaleRowsRefreshed ==
  ([]<>EvaluatedAnswer) => ((StaleSnapshot /\ engineEnabled) ~> (RefreshedResponse \/ ~engineEnabled))
====
